---- MODULE Spec2Model ----
(***************************************************************************)
(* Account admission and resilience control of the relay:                  *)
(*   - the request interval guard (src/src/utils/ipHelper.js),             *)
(*   - the account rate limiter (src/src/utils/sameSecondRequestGuard.js), *)
(*   - the 403 circuit breaker (src/unnamed/part_001).                     *)
(* Time is the wall clock in milliseconds.  The clock moves over a finite  *)
(* set of instants; timers fire at or after their due time (SpecRateTimed: *)
(* exactly when due).                                                      *)
(***************************************************************************)
EXTENDS Integers, Sequences, FiniteSets, TLC

VARIABLES
    now,        \* Date.now(), ms
    gStore,     \* shared store: request_interval_guard:<type>:<id> -> value with expiry
    gMem,       \* SameSecondRequestGuard.MEMORY_CACHE
    gPc,        \* position of each checkAndWait caller
    gCall,      \* locals of each caller's running checkAndWait
    gMinIntervalMs, \* the minIntervalMs the callers are configured to pass
    gRes,       \* the result checkAndWait returned last
    gAdm,       \* per key, the last two admissions: timestamp, path, slept
    accounts,   \* the account hashes of the registry, by <<accountType, accountId>>
    bWeb,       \* the web configuration of the breaker
    b403,       \* per account id, the store's window of 403 timestamps
    bRes,       \* the result a breaker operation returned last
    scan,       \* the locals of the running _scanAccountsByType and its result
    bPend,      \* the checkAndRecoverBreaker suspended between its read and its write
    rWeb,       \* the web configuration of the rate limiter
    rWin,       \* per account id, the store's window of counted requests
    rPc,        \* per caller, where its acquireRateLimit stands
    rCall,      \* per caller, the locals of its acquireRateLimit
    rRes,       \* the result a rate limiter operation returned last
    rAdm,       \* the admissions so far: account id and time
    rNextId,    \* the next request id (uuidv4 never repeats)
    lStore,     \* shared store: same_second_guard:<type>:<id> of one account
    lMem,       \* MEMORY_CACHE of the same-second guard, for that account
    lPc,        \* position of each caller of the same-second guard
    lCall,      \* locals of each caller's running checkAndWait
    lRes,       \* the result the same-second guard returned last
    lAdm,       \* the admissions of the same-second guard: caller, second, path
    wRes        \* what ipWhitelistMiddleware did with the last request

vars == <<now, gStore, gMem, gPc, gCall, gMinIntervalMs, gRes, gAdm,
          accounts, bWeb, b403, bRes, scan, bPend, rWeb, rWin, rPc, rCall, rRes, rAdm, rNextId,
          lStore, lMem, lPc, lCall, lRes, lAdm, wRes>>

guardVars == <<gStore, gMem, gPc, gCall, gMinIntervalMs, gRes, gAdm>>
breakerVars == <<bWeb, b403, bRes, scan, bPend>>
rateVars == <<rWeb, rWin, rPc, rCall, rRes, rAdm, rNextId>>
legacyVars == <<lStore, lMem, lPc, lCall, lRes, lAdm>>
nonGuardVars == <<accounts, breakerVars, rateVars, legacyVars, wRes>>
nonBreakerVars == <<guardVars, rateVars, legacyVars, wRes>>
nonRateVars == <<guardVars, breakerVars, legacyVars, wRes>>
nonLegacyVars == <<accounts, guardVars, breakerVars, rateVars, wRes>>
nonWhitelistVars == <<now, accounts, guardVars, breakerVars, rateVars, legacyVars>>

\* An absent value (nil, undefined, null) is the empty tuple, a present one <<v>>.
None == <<>>
Some(v) == <<v>>
Val(o) == o[1]

Min(a, b) == IF a < b THEN a ELSE b
Max(a, b) == IF a > b THEN a ELSE b

\* Number.prototype.toString / tostring(): the decimal string of an integer.
NumToString(n) == [digits |-> n]
\* parseInt / tonumber of a decimal string.
ParseInt(s) == s.digits

(***************************************************************************)
(* Request interval guard                                                  *)
(***************************************************************************)

GuardCallers == {1, 2}
getRedisKey(accountId, accountType) == <<accountType, accountId>>
GuardKeys == {getRedisKey("A", "claude-official")}
\* The instants of a run of one caller, and of a run of concurrent callers.
GuardTimes == {10000, 10100, 10200, 11000, 15000, 20100}
GuardTimesShort == {10000, 10100, 10200, 11000}
MaxWaits == {1000, 100}
MinIntervals == {0, 200, 6000}

ttlSeconds == 5
recordTtlSeconds == 5
maxAge == 10000

\* GET: the value of a key that has not expired.
StoreGet(store, k, t) ==
    IF store[k] # None /\ t < Val(store[k]).exp THEN Some(Val(store[k]).val) ELSE None

\* SETEX key ttl value, executed by the store at time t.
StoreSetex(store, k, ttl, val, t) ==
    [store EXCEPT ![k] = Some([val |-> val, exp |-> t + ttl * 1000])]

\* A script without the same-second comparison: in same-second mode it admits
\* whatever the stored timestamp is.
luaScriptWithoutSecondCheck(lastTimeMs, currentTimeMs, minIntervalMs) ==
    IF lastTimeMs # None /\ minIntervalMs > 0
          /\ currentTimeMs - ParseInt(Val(lastTimeMs)) < minIntervalMs
    THEN [waitMs |-> minIntervalMs - (currentTimeMs - ParseInt(Val(lastTimeMs))),
          canExecute |-> 0]
    ELSE [waitMs |-> 0, canExecute |-> 1]

\* The Lua script of _checkAndWaitWithRedis: {waitMs, canExecute}.
luaScript(lastTimeMs, currentTimeMs, minIntervalMs) ==
    IF lastTimeMs # None
    THEN LET last == ParseInt(Val(lastTimeMs))
             elapsedMs == currentTimeMs - last
         IN IF minIntervalMs > 0
            THEN IF elapsedMs < minIntervalMs
                 THEN [waitMs |-> minIntervalMs - elapsedMs, canExecute |-> 0]
                 ELSE [waitMs |-> 0, canExecute |-> 1]
            ELSE IF currentTimeMs \div 1000 = last \div 1000
                 THEN [waitMs |-> 1000 - (currentTimeMs % 1000), canExecute |-> 0]
                 ELSE [waitMs |-> 0, canExecute |-> 1]
    ELSE [waitMs |-> 0, canExecute |-> 1]

\* A memory path that knows the spacing mode only.
memoryWaitMsSpacingOnly(lastTimeMs, currentTimeMs, minIntervalMs) ==
    IF lastTimeMs # None /\ minIntervalMs > 0
          /\ currentTimeMs - Val(lastTimeMs) < minIntervalMs
    THEN minIntervalMs - (currentTimeMs - Val(lastTimeMs))
    ELSE 0

\* The wait computed by _checkAndWaitWithMemory (0: admit now).
memoryWaitMs(lastTimeMs, currentTimeMs, minIntervalMs) ==
    IF lastTimeMs # None /\ Val(lastTimeMs) # 0
    THEN LET elapsedMs == currentTimeMs - Val(lastTimeMs)
         IN IF minIntervalMs > 0
            THEN IF elapsedMs < minIntervalMs THEN minIntervalMs - elapsedMs ELSE 0
            ELSE IF currentTimeMs \div 1000 = Val(lastTimeMs) \div 1000
                 THEN 1000 - (currentTimeMs % 1000)
                 ELSE 0
    ELSE 0

\* A guard that sleeps up to twice maxWaitMs.
exceedsMaxWaitDoubled(waitMs, maxWaitMs) == waitMs > 2 * maxWaitMs

\* A guard that never refuses: every computed wait is slept.
exceedsMaxWaitNever(waitMs, maxWaitMs) == FALSE

\* if (waitMs > maxWaitMs): the call is refused instead of sleeping.
exceedsMaxWait(waitMs, maxWaitMs) == waitMs > maxWaitMs

GuardIdle ==
    [key |-> CHOOSE k \in GuardKeys : TRUE, maxWaitMs |-> 0, minIntervalMs |-> 0,
     startTime |-> 0, waitMs |-> 0, wakeAt |-> 0, found |-> FALSE, lag |-> FALSE,
     failed |-> FALSE]

\* One returned result {allowed, waitedMs}, with what the call did on the way:
\* the timestamp it recorded, the path it took ("redis", "memory"), whether
\* every store access succeeded, the wait it computed, whether it slept,
\* whether the script found a stored timestamp, whether the clock had moved
\* on between the call taking currentTimeMs and the store running the script,
\* when the call started, and whether it found no client or a failing script.
GuardResult(call, allowed, waitedMs, ts, path, storeOk, reqWait, slept) ==
    [key |-> call.key, maxWaitMs |-> call.maxWaitMs, allowed |-> allowed,
     waitedMs |-> waitedMs, ts |-> ts, path |-> path, storeOk |-> storeOk,
     reqWait |-> reqWait, slept |-> slept, found |-> call.found, lag |-> call.lag,
     startTime |-> call.startTime, failed |-> call.failed]

NoGuardResult ==
    [key |-> CHOOSE k \in GuardKeys : TRUE, maxWaitMs |-> 0, allowed |-> FALSE, waitedMs |-> 0, ts |-> None, path |-> "none",
     storeOk |-> FALSE, reqWait |-> 0, slept |-> FALSE, found |-> FALSE,
     lag |-> FALSE, startTime |-> 0, failed |-> FALSE]

NoAdmission == [ts |-> None, byStore |-> FALSE, slept |-> FALSE, lag |-> FALSE]

GuardReturn(c, res) ==
    /\ UNCHANGED gMinIntervalMs
    /\ gRes' = res
    /\ gAdm' = IF res.allowed
               THEN [gAdm EXCEPT ![res.key] =
                        [prev |-> gAdm[res.key].last,
                         last |-> [ts |-> res.ts,
                                   byStore |-> res.path = "redis" /\ res.storeOk,
                                   slept |-> res.slept, lag |-> res.lag]]]
               ELSE gAdm
    /\ gPc' = [gPc EXCEPT ![c] = "idle"]
    /\ gCall' = [gCall EXCEPT ![c] = GuardIdle]

\* _checkAndWaitWithMemory up to its return or its sleep.
checkAndWaitWithMemory(c, call) ==
    LET currentTimeMs == now
        lastTimeMs == gMem[call.key]
        waitMs == memoryWaitMs(lastTimeMs, currentTimeMs, call.minIntervalMs)
    IN /\ UNCHANGED gStore
       /\ IF waitMs = 0
          THEN /\ gMem' = [gMem EXCEPT ![call.key] = Some(currentTimeMs)]
               /\ GuardReturn(c, GuardResult(call, TRUE, 0, Some(currentTimeMs),
                                             "memory", FALSE, 0, FALSE))
          ELSE IF exceedsMaxWait(waitMs, call.maxWaitMs)
          THEN /\ UNCHANGED gMem
               /\ GuardReturn(c, GuardResult(call, FALSE, 0, None,
                                             "memory", FALSE, waitMs, FALSE))
          ELSE /\ UNCHANGED <<gMem, gRes, gAdm, gMinIntervalMs>>
               /\ gPc' = [gPc EXCEPT ![c] = "sleepMemory"]
               /\ gCall' = [gCall EXCEPT ![c] =
                     [call EXCEPT !.waitMs = waitMs, !.wakeAt = now + waitMs]]

\* A guard that looks into the memory cache before it turns to the store.
clientUnlessCached(client, k) == client /\ gMem[k] = None

\* if (client): the store path is taken whenever getClient() gave a client.
clientFound(client, k) == client

\* checkAndWait entered: startTime is taken, the client is looked up, and with
\* a client currentTimeMs is taken (at the same instant as startTime, nothing
\* is awaited in between) and the script is sent to the store.
checkAndWait(c, k, maxWaitMs, minIntervalMs, client) ==
    /\ UNCHANGED nonGuardVars
    /\ gPc[c] = "idle"
    /\ minIntervalMs = gMinIntervalMs
    /\ UNCHANGED now
    /\ LET call == [GuardIdle EXCEPT !.key = k, !.maxWaitMs = maxWaitMs,
                                     !.minIntervalMs = minIntervalMs,
                                     !.startTime = now, !.failed = ~client]
       IN IF clientFound(client, k)
          THEN /\ gPc' = [gPc EXCEPT ![c] = "eval"]
               /\ gCall' = [gCall EXCEPT ![c] = call]
               /\ UNCHANGED <<gStore, gMem, gRes, gAdm, gMinIntervalMs>>
          ELSE checkAndWaitWithMemory(c, call)

\* The store runs the script (atomically) and the caller handles its result;
\* a failed evaluation falls back to the memory cache.
checkAndWaitWithRedis(c, ok) ==
    /\ UNCHANGED nonGuardVars
    /\ gPc[c] = "eval"
    /\ UNCHANGED now
    /\ LET lastTimeMs == StoreGet(gStore, gCall[c].key, now)
           call == [gCall[c] EXCEPT !.found = ok /\ lastTimeMs # None,
                                    !.lag = now > gCall[c].startTime,
                                    !.failed = ~ok]
           currentTimeMs == call.startTime
           r == luaScript(lastTimeMs, currentTimeMs, call.minIntervalMs)
       IN IF ~ok
          THEN checkAndWaitWithMemory(c, call)
          ELSE IF r.canExecute = 1
          THEN /\ gStore' = StoreSetex(gStore, call.key, ttlSeconds,
                                       NumToString(currentTimeMs), now)
               /\ gMem' = [gMem EXCEPT ![call.key] = Some(currentTimeMs)]
               /\ GuardReturn(c, GuardResult(call, TRUE, 0, Some(currentTimeMs),
                                             "redis", TRUE, 0, FALSE))
          ELSE IF exceedsMaxWait(r.waitMs, call.maxWaitMs)
          THEN /\ UNCHANGED <<gStore, gMem>>
               /\ GuardReturn(c, GuardResult(call, FALSE, 0, None,
                                             "redis", TRUE, r.waitMs, FALSE))
          ELSE /\ UNCHANGED <<gStore, gMem, gRes, gAdm, gMinIntervalMs>>
               /\ gPc' = [gPc EXCEPT ![c] = "sleepRedis"]
               /\ gCall' = [gCall EXCEPT ![c] =
                     [call EXCEPT !.waitMs = r.waitMs, !.wakeAt = now + r.waitMs]]

\* The sleep of the store path is over: the new timestamp is written with a
\* plain SETEX (a failure is logged and ignored) and cached.
wakeRedis(c, ok) ==
    /\ UNCHANGED nonGuardVars
    /\ gPc[c] = "sleepRedis"
    /\ now >= gCall[c].wakeAt
    /\ UNCHANGED now
    /\ LET call == gCall[c]
           actualWaitedMs == now - call.startTime
           newTimeMs == now
       IN /\ gStore' = IF ok
                       THEN StoreSetex(gStore, call.key, ttlSeconds,
                                       NumToString(newTimeMs), now)
                       ELSE gStore
          /\ gMem' = [gMem EXCEPT ![call.key] = Some(newTimeMs)]
          /\ GuardReturn(c, GuardResult(call, TRUE, actualWaitedMs, Some(newTimeMs),
                                        "redis", ok, call.waitMs, TRUE))

\* The sleep of the memory path is over.
wakeMemory(c) ==
    /\ UNCHANGED nonGuardVars
    /\ gPc[c] = "sleepMemory"
    /\ now >= gCall[c].wakeAt
    /\ UNCHANGED <<now, gStore>>
    /\ LET call == gCall[c]
           actualWaitedMs == now - call.startTime
       IN /\ gMem' = [gMem EXCEPT ![call.key] = Some(now)]
          /\ GuardReturn(c, GuardResult(call, TRUE, actualWaitedMs, Some(now),
                                        "memory", FALSE, call.waitMs, TRUE))

\* recordRequest: the current time is stamped without any gating; a missing
\* client or a failed SETEX leaves only the memory cache stamped.  gRes holds
\* the result of the last guard operation when that was a checkAndWait.
recordRequest(k, ok) ==
    /\ UNCHANGED nonGuardVars
    /\ \A c \in GuardCallers : gPc[c] = "idle"
    /\ LET currentTimeMs == now
       IN /\ gStore' = IF ok
                       THEN StoreSetex(gStore, k, recordTtlSeconds,
                                       NumToString(currentTimeMs), now)
                       ELSE gStore
          /\ gMem' = [gMem EXCEPT ![k] = Some(currentTimeMs)]
    /\ gRes' = NoGuardResult
    /\ UNCHANGED <<now, gPc, gCall, gAdm, gMinIntervalMs>>

\* cleanupMemoryCache: the cache entries older than maxAge are deleted.
cleanupMemoryCache ==
    /\ UNCHANGED nonGuardVars
    /\ LET currentTimeMs == now
       IN gMem' = [k \in GuardKeys |->
                     IF gMem[k] # None /\ currentTimeMs - Val(gMem[k]) > maxAge
                     THEN None ELSE gMem[k]]
    /\ gMem' # gMem
    /\ gRes' = NoGuardResult
    /\ UNCHANGED <<now, gStore, gPc, gCall, gAdm, gMinIntervalMs>>

\* The clock moves to the next instant; the store drops the keys that expire.
GuardTick(times) ==
    /\ UNCHANGED nonGuardVars
    /\ \E t \in times :
          /\ t > now
          /\ \A u \in times : u > now => t <= u
          /\ now' = t
          /\ gStore' = [k \in GuardKeys |->
                          IF gStore[k] # None /\ t >= Val(gStore[k]).exp
                          THEN None ELSE gStore[k]]
    /\ UNCHANGED <<gMem, gPc, gCall, gRes, gAdm, gMinIntervalMs>>

(***************************************************************************)
(* IP whitelist middleware and resolveClientIP                             *)
(***************************************************************************)

\* An address string is a sequence of pieces: the text "::ffff:", a dotted
\* quad of four numbers, or another piece of text without dots.  Two strings
\* are equal when their pieces are.
Word(text) == [text |-> text, octets |-> <<>>]
V4(a, b, c, d) == [text |-> "", octets |-> <<a, b, c, d>>]
Mapped == Word("::ffff:")

\* The values of req.ip (|| remoteAddress): <<>> is a request without one.
ClientIps ==
    {<<>>,
     <<V4(1, 2, 3, 4)>>,                    \* 1.2.3.4
     <<Mapped, V4(1, 2, 3, 4)>>,            \* ::ffff:1.2.3.4
     <<Word("64"), Mapped, V4(1, 2, 3, 4)>>, \* 64::ffff:1.2.3.4
     <<V4(5, 6, 7, 8)>>,                    \* 5.6.7.8
     <<V4(10, 0, 0, 5)>>,                   \* 10.0.0.5
     <<Mapped, V4(192, 168, 0, 1)>>,        \* ::ffff:192.168.0.1
     <<Word("::1")>>,
     <<Word("2001:db8::1")>>}

\* config.security.ipWhitelist.allowedIps (<<>>: empty or left out).
Whitelists ==
    {<<>>,
     << <<V4(1, 2, 3, 4)>> >>,
     << <<V4(5, 6, 7, 8)>>, <<Mapped, V4(1, 2, 3, 4)>> >>,
     << <<V4(10, 0, 0, 5)>>, <<V4(5, 6, 7, 8)>> >>}

\* config.security.ipWhitelist and config.ipResolve.strategy.
WhitelistConfigs ==
    [enabled : BOOLEAN, allowedIps : Whitelists, strategy : {"auto", "raw"}]

Unknown == <<Word("unknown")>>

\* ip.replace(/^::ffff:/, '')
StripMappedPrefix(ip) == IF ip # <<>> /\ Head(ip) = Mapped THEN Tail(ip) ELSE ip

\* The texts that start with fc or fd, with fe80: and the loopback and
\* unspecified addresses, among the texts of ClientIps.
PrivateWords == {"::1", "::1/128", "::", "::/128"}

\* isPrivateIP.
isPrivateIP(ip) ==
    LET cleanIp == StripMappedPrefix(ip)
    IN IF ip = <<>> \/ ip = Unknown THEN FALSE
       ELSE IF \E i \in DOMAIN cleanIp : cleanIp[i].octets # <<>>
       THEN IF Len(cleanIp) # 1 \/ \E i \in 1..4 : cleanIp[1].octets[i] \notin 0..255
            THEN FALSE
            ELSE LET a == cleanIp[1].octets[1]
                     b == cleanIp[1].octets[2]
                 IN \/ a = 127 \/ a = 10
                    \/ (a = 172 /\ b >= 16 /\ b <= 31)
                    \/ (a = 192 /\ b = 168)
                    \/ (a = 169 /\ b = 254)
                    \/ a = 0
       ELSE Len(cleanIp) = 1 /\ cleanIp[1].text \in PrivateWords

\* getFallbackIPFromWhitelist: the first entry that is not private.
getFallbackIPFromWhitelist(whitelist) ==
    LET S == {i \in DOMAIN whitelist : ~isPrivateIP(whitelist[i])}
    IN IF S = {} THEN None ELSE Some(whitelist[CHOOSE i \in S : \A j \in S : i <= j])

\* getServerPublicIP: the cached address, else the one the API gives, else
\* the fallback, else 'unknown'; a store that throws leaves the fallback.
getServerPublicIP(cachedIP, fetchedIP, ok, whitelist) ==
    LET fallbackIP == getFallbackIPFromWhitelist(whitelist)
        orUnknown == IF fallbackIP # None THEN Val(fallbackIP) ELSE Unknown
    IN IF ~ok THEN orUnknown
       ELSE IF cachedIP # None THEN Val(cachedIP)
       ELSE IF fetchedIP # None THEN Val(fetchedIP)
       ELSE orUnknown

\* resolveClientIP.
resolveClientIP(ip, cfg, cachedIP, fetchedIP, ok) ==
    LET originalIP == IF ip = <<>> THEN Unknown ELSE ip
    IN IF cfg.strategy = "raw" THEN originalIP
       ELSE IF isPrivateIP(originalIP)
       THEN getServerPublicIP(cachedIP, fetchedIP, ok, cfg.allowedIps)
       ELSE originalIP

\* A match that accepts "::ffff:" at the start of the address only.
ipv4MatchAnchored(clientIp) ==
    IF Len(clientIp) >= 2 /\ Head(clientIp) = Mapped THEN Some(Tail(clientIp)) ELSE None

\* clientIp.match(/::ffff:(.+)/): what follows the first "::ffff:" that has
\* something after it, wherever in the address it stands.
ipv4Match(clientIp) ==
    LET S == {i \in DOMAIN clientIp : clientIp[i] = Mapped /\ i < Len(clientIp)}
    IN IF S = {} THEN None
       ELSE LET i == CHOOSE j \in S : \A l \in S : j <= l
            IN Some(SubSeq(clientIp, i + 1, Len(clientIp)))

\* whitelist.some(...)
isAllowed(whitelist, clientIp) ==
    \E i \in DOMAIN whitelist :
       \/ clientIp = whitelist[i]
       \/ ipv4Match(clientIp) # None /\ Val(ipv4Match(clientIp)) = whitelist[i]

\* What the middleware did with a request: the calls of next(), the 403
\* answers, whether the client address was resolved, and to what.
NoWhitelistResult ==
    [cfg |-> [enabled |-> FALSE, allowedIps |-> <<>>, strategy |-> "auto"],
     ip |-> <<>>, handled |-> FALSE, resolved |-> FALSE, clientIp |-> <<>>,
     nextCalls |-> 0, status403 |-> 0]

\* ipWhitelistMiddleware on a request from ip under the configuration cfg.
ipWhitelistMiddleware(ip, cfg, cachedIP, fetchedIP, ok) ==
    LET res == [NoWhitelistResult EXCEPT !.cfg = cfg, !.ip = ip, !.handled = TRUE]
        clientIp == resolveClientIP(ip, cfg, cachedIP, fetchedIP, ok)
        seen == [res EXCEPT !.resolved = TRUE, !.clientIp = clientIp]
    IN /\ UNCHANGED nonWhitelistVars
       /\ IF ~cfg.enabled
          THEN wRes' = [res EXCEPT !.nextCalls = 1]
          ELSE IF Len(cfg.allowedIps) = 0
          THEN wRes' = [seen EXCEPT !.status403 = 1]
          ELSE IF isAllowed(cfg.allowedIps, clientIp)
          THEN wRes' = [seen EXCEPT !.nextCalls = 1]
          ELSE wRes' = [seen EXCEPT !.status403 = 1]

\* The addresses the store's cache and the lookup services give (None: none).
ServerIps == {None, Some(<<V4(5, 6, 7, 8)>>)}

WhitelistNext ==
    \E ip \in ClientIps, cfg \in WhitelistConfigs, cachedIP \in ServerIps,
       fetchedIP \in ServerIps, ok \in BOOLEAN :
          ipWhitelistMiddleware(ip, cfg, cachedIP, fetchedIP, ok)

(***************************************************************************)
(* Same-second guard (sameSecondRequestGuard.js), calls on one account     *)
(***************************************************************************)

LegacyCallers == {1, 2}
LegacyTimes == {10000, 10100, 11000}
LegacyMaxWaits == {1000, 100}

\* getCurrentSecond at time t.
getCurrentSecond(t) == t \div 1000

\* client.get(redisKey) at time t: the value that has not expired.
LegacyStoreGet(store, t) ==
    IF store # None /\ t < Val(store).exp THEN Some(Val(store).val) ELSE None

\* client.setex(redisKey, 2, second.toString()) executed at time t.
LegacyStoreSetex(second, t) == Some([val |-> NumToString(second), exp |-> t + 2 * 1000])

LegacyIdle == [maxWaitMs |-> 0, startTime |-> 0, currentSecond |-> 0, wakeAt |-> 0,
               newSecond |-> 0, actualWaitedMs |-> 0]

\* One returned {allowed, waitedMs} with the second the call recorded and
\* whether it was decided on the store path.
NoLegacyResult ==
    [caller |-> 0, allowed |-> FALSE, waitedMs |-> 0, second |-> 0, byStore |-> FALSE]

LegacyReturn(c, allowed, waitedMs, second, byStore) ==
    /\ lRes' = [caller |-> c, allowed |-> allowed, waitedMs |-> waitedMs,
                second |-> second, byStore |-> byStore]
    /\ lAdm' = IF allowed
               THEN lAdm \cup {[caller |-> c, second |-> second, byStore |-> byStore]}
               ELSE lAdm
    /\ lPc' = [lPc EXCEPT ![c] = "idle"]
    /\ lCall' = [lCall EXCEPT ![c] = LegacyIdle]

\* lastRequestSecond && parseInt(lastRequestSecond) === currentSecond
sameSecond(lastRequestSecond, currentSecond) ==
    lastRequestSecond # None /\ ParseInt(Val(lastRequestSecond)) = currentSecond

\* checkAndWaitWithMemory up to its return or its sleep.
legacyCheckAndWaitWithMemory(c, call) ==
    LET currentSecond == getCurrentSecond(now)
        lastRequestSecond == lMem
        waitMs == 1000 - (now % 1000)
    IN /\ UNCHANGED lStore
       /\ IF lastRequestSecond # None /\ Val(lastRequestSecond) # 0
             /\ Val(lastRequestSecond) = currentSecond
          THEN IF waitMs > call.maxWaitMs
               THEN /\ UNCHANGED lMem
                    /\ LegacyReturn(c, FALSE, 0, currentSecond, FALSE)
               ELSE /\ UNCHANGED <<lMem, lRes, lAdm>>
                    /\ lPc' = [lPc EXCEPT ![c] = "sleepMemory"]
                    /\ lCall' = [lCall EXCEPT ![c] = [call EXCEPT !.wakeAt = now + waitMs]]
          ELSE /\ lMem' = Some(currentSecond)
               /\ LegacyReturn(c, TRUE, 0, currentSecond, FALSE)

\* checkAndWait entered: startTime and currentSecond are taken, the client is
\* looked up and, with a client, the GET is sent.
legacyCheckAndWait(c, maxWaitMs, client) ==
    /\ UNCHANGED <<now, nonLegacyVars>>
    /\ lPc[c] = "idle"
    /\ LET call == [LegacyIdle EXCEPT !.maxWaitMs = maxWaitMs, !.startTime = now,
                                      !.currentSecond = getCurrentSecond(now)]
       IN IF client
          THEN /\ lPc' = [lPc EXCEPT ![c] = "get"]
               /\ lCall' = [lCall EXCEPT ![c] = call]
               /\ UNCHANGED <<lStore, lMem, lRes, lAdm>>
          ELSE legacyCheckAndWaitWithMemory(c, call)

\* The GET is answered (ok = FALSE: it throws, the catch turns to the memory
\* cache): the call is refused, goes to sleep or sends its SETEX.
legacyGet(c, ok) ==
    /\ UNCHANGED <<now, nonLegacyVars>>
    /\ lPc[c] = "get"
    /\ LET call == lCall[c]
           lastRequestSecond == LegacyStoreGet(lStore, now)
           waitMs == 1000 - (now % 1000)
       IN IF ~ok
          THEN legacyCheckAndWaitWithMemory(c, call)
          ELSE IF sameSecond(lastRequestSecond, call.currentSecond)
          THEN IF waitMs > call.maxWaitMs
               THEN /\ UNCHANGED <<lStore, lMem>>
                    /\ LegacyReturn(c, FALSE, 0, call.currentSecond, TRUE)
               ELSE /\ UNCHANGED <<lStore, lMem, lRes, lAdm>>
                    /\ lPc' = [lPc EXCEPT ![c] = "sleep"]
                    /\ lCall' = [lCall EXCEPT ![c] = [call EXCEPT !.wakeAt = now + waitMs]]
          ELSE /\ UNCHANGED <<lStore, lMem, lRes, lAdm, lCall>>
               /\ lPc' = [lPc EXCEPT ![c] = "setex"]

\* The SETEX of a call admitted at once is executed and answered; when it
\* throws the catch turns to the memory cache.
legacySetex(c, ok) ==
    /\ UNCHANGED <<now, nonLegacyVars>>
    /\ lPc[c] = "setex"
    /\ LET call == lCall[c]
       IN IF ok
          THEN /\ lStore' = LegacyStoreSetex(call.currentSecond, now)
               /\ lMem' = Some(call.currentSecond)
               /\ LegacyReturn(c, TRUE, 0, call.currentSecond, TRUE)
          ELSE legacyCheckAndWaitWithMemory(c, call)

\* The sleep of the store path is over: the new second is taken and its SETEX
\* is sent.
legacyWake(c) ==
    /\ UNCHANGED <<now, nonLegacyVars>>
    /\ lPc[c] = "sleep"
    /\ now >= lCall[c].wakeAt
    /\ lPc' = [lPc EXCEPT ![c] = "setexAfterWait"]
    /\ lCall' = [lCall EXCEPT ![c] = [lCall[c] EXCEPT
                     !.actualWaitedMs = now - lCall[c].startTime,
                     !.newSecond = getCurrentSecond(now)]]
    /\ UNCHANGED <<lStore, lMem, lRes, lAdm>>

\* The SETEX after the sleep is executed and answered; when it throws the
\* catch of checkAndWait runs the memory path from its start.
legacySetexAfterWait(c, ok) ==
    /\ UNCHANGED <<now, nonLegacyVars>>
    /\ lPc[c] = "setexAfterWait"
    /\ LET call == lCall[c]
       IN IF ok
          THEN /\ lStore' = LegacyStoreSetex(call.newSecond, now)
               /\ lMem' = Some(call.newSecond)
               /\ LegacyReturn(c, TRUE, call.actualWaitedMs, call.newSecond, TRUE)
          ELSE legacyCheckAndWaitWithMemory(c, call)

\* The sleep of the memory path is over.
legacyWakeMemory(c) ==
    /\ UNCHANGED <<now, nonLegacyVars>>
    /\ lPc[c] = "sleepMemory"
    /\ now >= lCall[c].wakeAt
    /\ UNCHANGED lStore
    /\ lMem' = Some(getCurrentSecond(now))
    /\ LegacyReturn(c, TRUE, now - lCall[c].startTime, getCurrentSecond(now), FALSE)

\* The clock moves to the next instant; the store drops the key when it expires.
LegacyTick ==
    /\ UNCHANGED nonLegacyVars
    /\ \E t \in LegacyTimes :
          /\ t > now
          /\ \A u \in LegacyTimes : u > now => t <= u
          /\ now' = t
          /\ lStore' = IF lStore # None /\ t >= Val(lStore).exp THEN None ELSE lStore
    /\ UNCHANGED <<lMem, lPc, lCall, lRes, lAdm>>

LegacyStart ==
    /\ lStore = None
    /\ lMem = None
    /\ lPc = [c \in LegacyCallers |-> "idle"]
    /\ lCall = [c \in LegacyCallers |-> LegacyIdle]
    /\ lRes = NoLegacyResult
    /\ lAdm = {}

\* Concurrent checkAndWait calls of the same-second guard on one account.
LegacyNext ==
    \/ \E c \in LegacyCallers, w \in LegacyMaxWaits, client \in BOOLEAN :
          legacyCheckAndWait(c, w, client)
    \/ \E c \in LegacyCallers, ok \in BOOLEAN : legacyGet(c, ok)
    \/ \E c \in LegacyCallers, ok \in BOOLEAN : legacySetex(c, ok)
    \/ \E c \in LegacyCallers : legacyWake(c)
    \/ \E c \in LegacyCallers, ok \in BOOLEAN : legacySetexAfterWait(c, ok)
    \/ \E c \in LegacyCallers : legacyWakeMemory(c)
    \/ LegacyTick

(***************************************************************************)
(* The request interval guard's start                                      *)
(***************************************************************************)

\* Both guards start with an empty cache, no stored timestamp and no caller
\* inside; the middleware has seen no request.
GuardStart ==
    /\ LegacyStart
    /\ wRes = NoWhitelistResult
    /\ gStore = [k \in GuardKeys |-> None]
    /\ gMem = [k \in GuardKeys |-> None]
    /\ gPc = [c \in GuardCallers |-> "idle"]
    /\ gCall = [c \in GuardCallers |-> GuardIdle]
    /\ gRes = NoGuardResult
    /\ gAdm = [k \in GuardKeys |-> [prev |-> NoAdmission, last |-> NoAdmission]]

\* The guard before its first call, for each minIntervalMs the callers may pass.
GuardInit == GuardStart /\ gMinIntervalMs \in MinIntervals

\* The guard left unused.
GuardQuiet == GuardStart /\ gMinIntervalMs = 0

(***************************************************************************)
(* The account registry (the store's hashes <accountType>:<accountId>)     *)
(***************************************************************************)

\* The fixed list _getAccountData and _updateAccountBreakerState walk.
accountTypes ==
    <<"claude_account", "claude_console_account", "gemini_account",
      "bedrock_account", "azure_openai_account", "droid_account",
      "ccr_account", "openai_responses_account">>

AccountIds == {"A", "B"}

\* The accounts that exist: the id "A" exists under two account types.
AccountKeys ==
    {<<"claude_account", "A">>, <<"gemini_account", "A">>, <<"gemini_account", "B">>}

\* The fields of an account hash the two services read or write; None: the
\* field is absent.  An existing account has other fields (name, ...), so its
\* hash is never empty.
NoFields ==
    [error403BreakerEnabled |-> None, error403Threshold |-> None,
     error403BreakerDurationMinutes |-> None, error403BreakerState |-> None,
     error403BreakerOpenAt |-> None, error403BreakerOpenUntil |-> None,
     rateLimitEnabled |-> None, rateLimitWindowSeconds |-> None,
     rateLimitMaxRequests |-> None,
     error403WindowSeconds |-> None, error403AutoRecovery |-> None,
     rateLimitQueueTimeoutMs |-> None, rateLimitEnableQueueing |-> None,
     lastUsedAt |-> None]

\* The hashes of the registry at the start: no breaker state yet, account B
\* with overrides of its own.
RegistryInit ==
    [k \in AccountKeys |->
        IF k = <<"gemini_account", "B">>
        THEN [NoFields EXCEPT !.error403Threshold = Some(NumToString(2)),
                              !.error403BreakerDurationMinutes = Some(NumToString(1)),
                              !.rateLimitEnabled = Some("true"),
                              !.rateLimitWindowSeconds = Some(NumToString(1)),
                              !.rateLimitMaxRequests = Some(NumToString(2))]
        ELSE NoFields]

\* Hashes that switch the breaker and the rate limiter on or off account by
\* account and also carry fields named after the settings the services take
\* from the global configuration only.
RegistryOverridden ==
    [k \in AccountKeys |->
        IF k = <<"gemini_account", "B">>
        THEN [RegistryInit[k] EXCEPT !.error403BreakerEnabled = Some("false"),
                                     !.error403WindowSeconds = Some(NumToString(1)),
                                     !.error403AutoRecovery = Some("false"),
                                     !.rateLimitQueueTimeoutMs = Some(NumToString(100)),
                                     !.rateLimitEnableQueueing = Some("false")]
        ELSE IF k = <<"claude_account", "A">>
        THEN [NoFields EXCEPT !.error403BreakerEnabled = Some("true"),
                              !.rateLimitEnabled = Some("false"),
                              !.error403WindowSeconds = Some(NumToString(1)),
                              !.rateLimitEnableQueueing = Some("true")]
        ELSE NoFields]

Registries == {RegistryInit, RegistryOverridden}

\* hgetall gives a non-empty object, exists gives 1.
Exists(reg, k) == k \in DOMAIN reg

\* The index in accountTypes of the first type under which accountId exists
\* (0: under none).
FirstTypeFrom(reg, accountId, i) ==
    LET S == {j \in DOMAIN accountTypes : j >= i /\ Exists(reg, <<accountTypes[j], accountId>>)}
    IN IF S = {} THEN 0 ELSE CHOOSE j \in S : \A l \in S : j <= l

\* _getAccountData: the hash of the first account type that has accountId.
getAccountData(reg, accountId) ==
    LET i == FirstTypeFrom(reg, accountId, 1)
    IN IF i = 0 THEN None ELSE Some(reg[<<accountTypes[i], accountId>>])

\* The key of the hash _getAccountData returns.
ResolvedKey(reg, accountId) ==
    <<accountTypes[FirstTypeFrom(reg, accountId, 1)], accountId>>

(***************************************************************************)
(* 403 circuit breaker (Error403CircuitBreakerService)                     *)
(***************************************************************************)

MaxErrs == 3
BreakerTimes == {10000, 70000, 310000, 1810000}
BreakerTimesShort == {10000, 70000}

\* config.error403CircuitBreaker || {} with the section left out of the file.
breakerConfig ==
    [enabled |-> None, threshold |-> None, windowSeconds |-> None,
     breakerDurationMinutes |-> None, autoRecovery |-> None]

NoWebConfig ==
    [error403BreakerEnabled |-> None, error403Threshold |-> None,
     error403WindowSeconds |-> None, error403BreakerDurationMinutes |-> None,
     error403AutoRecovery |-> None]

\* What claudeRelayConfigService.getConfig() gives (None: it throws).
BreakerWebConfigs ==
    {None, Some([NoWebConfig EXCEPT !.error403Threshold = Some(2)]),
     Some([NoWebConfig EXCEPT !.error403BreakerEnabled = Some(FALSE)])}

\* a ?? b
Coalesce(a, b) == IF a # None THEN Val(a) ELSE b

\* getConfig: the web configuration first, the defaults for what it leaves out.
breakerGetConfig(web) ==
    LET defaults ==
            [enabled |-> Coalesce(breakerConfig.enabled, TRUE),
             threshold |-> Coalesce(breakerConfig.threshold, 3),
             windowSeconds |-> Coalesce(breakerConfig.windowSeconds, 300),
             breakerDurationMinutes |-> Coalesce(breakerConfig.breakerDurationMinutes, 30),
             autoRecovery |-> Coalesce(breakerConfig.autoRecovery, TRUE)]
    IN IF web = None THEN defaults
       ELSE [enabled |-> Coalesce(Val(web).error403BreakerEnabled, defaults.enabled),
             threshold |-> Coalesce(Val(web).error403Threshold, defaults.threshold),
             windowSeconds |-> Coalesce(Val(web).error403WindowSeconds, defaults.windowSeconds),
             breakerDurationMinutes |->
                 Coalesce(Val(web).error403BreakerDurationMinutes, defaults.breakerDurationMinutes),
             autoRecovery |-> Coalesce(Val(web).error403AutoRecovery, defaults.autoRecovery)]

\* getAccountConfig: enabled, threshold and breakerDurationMinutes can be
\* overridden by the account hash.
breakerGetAccountConfig(reg, web, accountId) ==
    LET globalConfig == breakerGetConfig(web)
        accountData == getAccountData(reg, accountId)
    IN IF accountData # None
       THEN LET d == Val(accountData)
            IN [enabled |-> IF d.error403BreakerEnabled # None
                            THEN Val(d.error403BreakerEnabled) = "true"
                            ELSE globalConfig.enabled,
                threshold |-> IF d.error403Threshold # None
                              THEN ParseInt(Val(d.error403Threshold))
                              ELSE globalConfig.threshold,
                windowSeconds |-> globalConfig.windowSeconds,
                breakerDurationMinutes |->
                    IF d.error403BreakerDurationMinutes # None
                    THEN ParseInt(Val(d.error403BreakerDurationMinutes))
                    ELSE globalConfig.breakerDurationMinutes,
                autoRecovery |-> globalConfig.autoRecovery]
       ELSE globalConfig

\* The store's rolling window of 403 timestamps of one account id: the entries
\* of win no older than windowSeconds at time t.
InWindow(win, t, windowSeconds) ==
    SelectSeq(win, LAMBDA ts : ts > t - windowSeconds * 1000)

\* redis.record403Error: the timestamp is appended, the expired entries are
\* dropped, the count is read back.
storeRecord403Error(win, t, windowSeconds) ==
    Append(InWindow(win, t, windowSeconds), t)

\* redis.get403ErrorCount.
storeGet403ErrorCount(win, t, windowSeconds) ==
    Len(InWindow(win, t, windowSeconds))

\* redis.clear403Errors.
storeClear403Errors(win) == <<>>

\* A threshold that only a count above it reaches.
thresholdReachedStrict(errorCount, threshold) == errorCount > threshold

\* if (errorCount >= cfg.threshold)
thresholdReached(errorCount, threshold) == errorCount >= threshold

\* The updates of the three transitions, in the order of Object.entries; a
\* value None is the null that deletes the field.
openUpdates(t, cfg) ==
    <<<<"error403BreakerState", Some("open")>>,
      <<"error403BreakerOpenAt", Some(NumToString(t))>>,
      <<"error403BreakerOpenUntil",
        Some(NumToString(t + cfg.breakerDurationMinutes * 60 * 1000))>>>>

\* A half-open transition that also deletes the two timestamps.
halfOpenUpdatesClearing ==
    <<<<"error403BreakerState", Some("half_open")>>,
      <<"error403BreakerOpenAt", None>>,
      <<"error403BreakerOpenUntil", None>>>>

halfOpenUpdates == <<<<"error403BreakerState", Some("half_open")>>>>

closeUpdates ==
    <<<<"error403BreakerState", Some("closed")>>,
      <<"error403BreakerOpenAt", None>>,
      <<"error403BreakerOpenUntil", None>>>>

\* The store writes _updateAccountBreakerState issues for one hash: an HDEL
\* per null value as it is met, then one HMSET of the other fields.
StoreWrites(updates) ==
    LET dels == SelectSeq(updates, LAMBDA u : u[2] = None)
        sets == SelectSeq(updates, LAMBDA u : u[2] # None)
    IN [i \in 1..Len(dels) |-> <<dels[i]>>] \o (IF sets = <<>> THEN <<>> ELSE <<sets>>)

\* A write that puts back a whole hash holding the written fields only.
ApplyWriteWholeHash(fields, w) ==
    [f \in DOMAIN fields |->
        IF \E i \in DOMAIN w : w[i][1] = f
        THEN w[CHOOSE i \in DOMAIN w : w[i][1] = f][2]
        ELSE None]

\* One store write applied to the fields of a hash.
ApplyWrite(fields, w) ==
    [f \in DOMAIN fields |->
        IF \E i \in DOMAIN w : w[i][1] = f
        THEN w[CHOOSE i \in DOMAIN w : w[i][1] = f][2]
        ELSE fields[f]]

RECURSIVE ApplyWrites(_, _, _)
\* The first n writes applied in order.
ApplyWrites(fields, writes, n) ==
    IF n = 0 THEN fields
    ELSE ApplyWrite(ApplyWrites(fields, writes, n - 1), writes[n])

RECURSIVE UpdateLoop(_, _, _, _, _)
\* The loop of _updateAccountBreakerState from account type i on: the first
\* type whose key exists is written and true is returned; a write that throws
\* (the failAt-th, 0: none) is swallowed and the loop goes on to the next type.
UpdateLoop(reg, accountId, writes, i, failAt) ==
    LET j == FirstTypeFrom(reg, accountId, i)
        k == <<accountTypes[j], accountId>>
    IN IF j = 0 THEN [reg |-> reg, ret |-> FALSE]
       ELSE IF failAt \in 1..Len(writes)
       THEN UpdateLoop([reg EXCEPT ![k] = ApplyWrites(reg[k], writes, failAt - 1)],
                       accountId, writes, j + 1, 0)
       ELSE [reg |-> [reg EXCEPT ![k] = ApplyWrites(reg[k], writes, Len(writes))],
             ret |-> TRUE]

\* _updateAccountBreakerState.
updateAccountBreakerState(reg, accountId, updates, failAt) ==
    IF getAccountData(reg, accountId) = None
    THEN [reg |-> reg, ret |-> FALSE]
    ELSE UpdateLoop(reg, accountId, StoreWrites(updates), 1, failAt)

\* The result a breaker operation returned last: the operation, the account
\* the caller meant, and the fields of the returned object ("threw": the
\* operation ended with an exception).
BreakerResult(op, key) ==
    [op |-> op, key |-> key, threw |-> FALSE, ret |-> FALSE, triggered |-> FALSE,
     errorCount |-> 0, threshold |-> 0, state |-> "", recovered |-> FALSE,
     remainingMs |-> None, openAt |-> None, openUntil |-> None, enabled |-> FALSE,
     storeOk |-> TRUE, checked |-> <<>>, failedType |-> "", failedCheck |-> 0,
     readAt |-> 0, writtenAt |-> 0]

NoBreakerResult == BreakerResult("none", CHOOSE k \in AccountKeys : TRUE)

\* accountData.error403BreakerState || 'closed'
StateOr(accountData, default) ==
    IF accountData # None /\ Val(accountData).error403BreakerState # None
    THEN Val(Val(accountData).error403BreakerState)
    ELSE default

\* parseInt(accountData.error403BreakerOpenUntil || '0')
OpenUntilOf(accountData) ==
    IF Val(accountData).error403BreakerOpenUntil # None
    THEN ParseInt(Val(Val(accountData).error403BreakerOpenUntil))
    ELSE 0

\* openCircuitBreaker on a registry at time t; _updateAccountBreakerState
\* swallows the store errors, so true is returned whatever happened.
openCircuitBreaker(reg, accountId, cfg, t, failAt) ==
    [reg |-> updateAccountBreakerState(reg, accountId, openUpdates(t, cfg), failAt).reg,
     ret |-> TRUE]

\* A breaker that takes every account for enabled.
breakerDisabledNever(cfg) == FALSE

\* if (!cfg.enabled)
breakerDisabled(cfg) == ~cfg.enabled

\* record403Error.  The store call is not guarded: when it throws, so does
\* record403Error (okStore = FALSE).  failAt: which store write of
\* openCircuitBreaker throws (0: none).
record403Error(key, okStore, failAt) ==
    LET accountId == key[2]
        cfg == breakerGetAccountConfig(accounts, bWeb, accountId)
        res == [BreakerResult("record403Error", key) EXCEPT !.threshold = cfg.threshold]
        win == storeRecord403Error(b403[accountId], now, cfg.windowSeconds)
        errorCount == Len(win)
        u == openCircuitBreaker(accounts, accountId, cfg, now, failAt)
    IN /\ UNCHANGED <<now, bWeb, scan, bPend>>
       /\ UNCHANGED nonBreakerVars
       /\ IF breakerDisabled(cfg)
          THEN /\ okStore /\ failAt = 0
               /\ bRes' = [res EXCEPT !.state = "disabled"]
               /\ UNCHANGED <<accounts, b403>>
          ELSE IF ~okStore
          THEN /\ failAt = 0
               /\ bRes' = [res EXCEPT !.threw = TRUE, !.storeOk = FALSE]
               /\ UNCHANGED <<accounts, b403>>
          ELSE /\ errorCount <= MaxErrs
               /\ b403' = [b403 EXCEPT ![accountId] = win]
               /\ IF thresholdReached(errorCount, cfg.threshold)
                  THEN /\ accounts' = u.reg
                       /\ bRes' = [res EXCEPT !.triggered = TRUE, !.errorCount = errorCount,
                                              !.state = "open", !.storeOk = (failAt = 0)]
                  ELSE /\ failAt = 0
                       /\ UNCHANGED accounts
                       /\ bRes' = [res EXCEPT !.errorCount = errorCount, !.state = "closed"]

\* halfOpenCircuitBreaker.
halfOpenCircuitBreaker(key, failAt) ==
    LET accountId == key[2]
        u == updateAccountBreakerState(accounts, accountId, halfOpenUpdates, failAt)
    IN /\ UNCHANGED <<now, bWeb, b403, scan, bPend>>
       /\ UNCHANGED nonBreakerVars
       /\ accounts' = u.reg
       /\ bRes' = [BreakerResult("halfOpenCircuitBreaker", key) EXCEPT
                      !.ret = TRUE, !.storeOk = (failAt = 0)]

\* closeCircuitBreaker: the error window is cleared (a failure is caught and
\* false is returned), then the hash is updated.
closeCircuitBreaker(key, okClear, failAt) ==
    LET accountId == key[2]
        u == updateAccountBreakerState(accounts, accountId, closeUpdates, failAt)
        res == BreakerResult("closeCircuitBreaker", key)
    IN /\ UNCHANGED <<now, bWeb, scan, bPend>>
       /\ UNCHANGED nonBreakerVars
       /\ IF ~okClear
          THEN /\ failAt = 0
               /\ UNCHANGED <<accounts, b403>>
               /\ bRes' = [res EXCEPT !.ret = FALSE, !.storeOk = FALSE]
          ELSE /\ b403' = [b403 EXCEPT ![accountId] = storeClear403Errors(b403[accountId])]
               /\ accounts' = u.reg
               /\ bRes' = [res EXCEPT !.ret = TRUE, !.storeOk = (failAt = 0)]

\* checkAndRecoverBreaker on a registry: the registry after it and the result.
checkAndRecover(reg, key, t, failAt) ==
    LET accountId == key[2]
        accountData == getAccountData(reg, accountId)
        res == BreakerResult("checkAndRecoverBreaker", key)
        openUntil == OpenUntilOf(accountData)
    IN IF accountData = None \/ StateOr(accountData, "") # "open"
       THEN [reg |-> reg,
             res |-> [res EXCEPT !.state = StateOr(accountData, "closed")]]
       ELSE IF t >= openUntil
       THEN [reg |-> updateAccountBreakerState(reg, accountId, halfOpenUpdates, failAt).reg,
             res |-> [res EXCEPT !.recovered = TRUE, !.state = "half_open",
                                 !.storeOk = (failAt = 0)]]
       ELSE [reg |-> reg,
             res |-> [res EXCEPT !.state = "open", !.remainingMs = Some(openUntil - t)]]

\* checkAndRecoverBreaker.
checkAndRecoverBreaker(key, failAt) ==
    LET r == checkAndRecover(accounts, key, now, failAt)
    IN /\ UNCHANGED <<now, bWeb, b403, scan, bPend>>
       /\ UNCHANGED nonBreakerVars
       /\ failAt # 0 => r.res.recovered
       /\ accounts' = r.reg
       /\ bRes' = r.res

\* checkAndRecoverBreaker up to its await of halfOpenCircuitBreaker: the
\* record is read and the cooldown compared with Date.now(); the call returns
\* at once unless the record is open with its cooldown over.
checkAndRecoverRead(key) ==
    LET accountId == key[2]
        accountData == getAccountData(accounts, accountId)
        res == BreakerResult("checkAndRecoverBreaker", key)
        openUntil == OpenUntilOf(accountData)
    IN /\ bPend = None
       /\ UNCHANGED <<now, accounts, bWeb, b403, scan>>
       /\ UNCHANGED nonBreakerVars
       /\ IF accountData = None \/ StateOr(accountData, "") # "open"
          THEN /\ bRes' = [res EXCEPT !.state = StateOr(accountData, "closed")]
               /\ UNCHANGED bPend
          ELSE IF now >= openUntil
          THEN /\ bPend' = Some([key |-> key, readAt |-> now])
               /\ UNCHANGED bRes
          ELSE /\ bRes' = [res EXCEPT !.state = "open", !.remainingMs = Some(openUntil - now)]
               /\ UNCHANGED bPend

\* The rest of that checkAndRecoverBreaker: halfOpenCircuitBreaker writes the
\* state, whatever the record holds by now, and the call returns.
checkAndRecoverWrite ==
    /\ bPend # None
    /\ LET key == Val(bPend).key
           u == updateAccountBreakerState(accounts, key[2], halfOpenUpdates, 0)
       IN /\ accounts' = u.reg
          /\ bRes' = [BreakerResult("checkAndRecoverBreaker", key) EXCEPT
                         !.recovered = TRUE, !.state = "half_open",
                         !.readAt = Val(bPend).readAt, !.writtenAt = now]
    /\ bPend' = None
    /\ UNCHANGED <<now, bWeb, b403, scan>>
    /\ UNCHANGED nonBreakerVars

\* Another mechanism sharing the account hash (the account selection) stamps
\* the time of use into a field of its own.
registryWrite(k) ==
    /\ accounts' = [accounts EXCEPT ![k].lastUsedAt = Some(NumToString(now))]
    /\ UNCHANGED <<now, bWeb, b403, bRes, scan, bPend>>
    /\ UNCHANGED nonBreakerVars

\* getBreakerStatus; ok = FALSE: get403ErrorCount throws.
getBreakerStatus(key, ok) ==
    LET accountId == key[2]
        accountData == getAccountData(accounts, accountId)
        errorCount == storeGet403ErrorCount(b403[accountId], now, 300)
        cfg == breakerGetAccountConfig(accounts, bWeb, accountId)
        res == BreakerResult("getBreakerStatus", key)
        state == StateOr(accountData, "closed")
        openAt == IF Val(accountData).error403BreakerOpenAt # None
                  THEN Some(ParseInt(Val(Val(accountData).error403BreakerOpenAt)))
                  ELSE None
        openUntil == IF Val(accountData).error403BreakerOpenUntil # None
                     THEN Some(ParseInt(Val(Val(accountData).error403BreakerOpenUntil)))
                     ELSE None
    IN /\ UNCHANGED <<now, bWeb, b403, accounts, scan, bPend>>
       /\ UNCHANGED nonBreakerVars
       /\ bRes' = IF ~ok
                  THEN [res EXCEPT !.state = "error", !.storeOk = FALSE]
                  ELSE IF accountData = None
                  THEN [res EXCEPT !.state = "closed", !.errorCount = errorCount,
                                   !.threshold = cfg.threshold, !.enabled = cfg.enabled]
                  ELSE [res EXCEPT !.state = state, !.errorCount = errorCount,
                                   !.threshold = cfg.threshold, !.enabled = cfg.enabled,
                                   !.openAt = openAt, !.openUntil = openUntil,
                                   !.remainingMs =
                                       Some(IF openUntil # None /\ state = "open"
                                            THEN Max(0, Val(openUntil) - now) ELSE 0)]

\* The account ids _runAutoRecovery checks, in the order of its two loops: per
\* account type the ids _scanAccountsByType found under it (the checks of two
\* different ids touch different hashes, so their order within a type is
\* immaterial).
RECURSIVE ScanOrder(_, _, _)
ScanOrder(reg, i, ids) ==
    IF i > Len(accountTypes) THEN <<>>
    ELSE IF ids = {} THEN ScanOrder(reg, i + 1, AccountIds)
    ELSE LET id == CHOOSE x \in ids : TRUE
         IN (IF Exists(reg, <<accountTypes[i], id>>) THEN <<<<accountTypes[i], id>>>> ELSE <<>>)
            \o ScanOrder(reg, i, ids \ {id})

\* A sweep that scans the first account type only.
SweepKeysFirstTypeOnly(reg, failedType) ==
    SelectSeq(ScanOrder(reg, 1, AccountIds), LAMBDA k : k[1] = accountTypes[1])

\* A sweep that gives up at the account type whose scan fails.
SweepKeysAborting(reg, failedType) ==
    LET keys == ScanOrder(reg, 1, AccountIds)
        P == {i \in DOMAIN keys : keys[i][1] = failedType}
    IN IF P = {} THEN keys
       ELSE SubSeq(keys, 1, (CHOOSE i \in P : \A j \in P : i <= j) - 1)

\* The scan entries _runAutoRecovery goes through when the scan of failedType
\* throws ("": no scan throws): _scanAccountsByType catches the error and
\* returns [] for that type, and the outer loop goes on.
SweepKeys(reg, failedType) ==
    SelectSeq(ScanOrder(reg, 1, AccountIds), LAMBDA k : k[1] # failedType)

\* checkAndRecoverBreaker with the store failing under it: every hgetall of
\* _getAccountData throws and is caught, no account is found, nothing is written.
checkAndRecoverStoreDown(reg, key) ==
    [reg |-> reg,
     res |-> [BreakerResult("checkAndRecoverBreaker", key) EXCEPT !.state = "closed",
                                                                  !.storeOk = FALSE]]

RECURSIVE SweepFrom(_, _, _, _, _)
\* The inner loop of _runAutoRecovery over the scan entries keys; the store
\* fails under the failedCheck-th check from here (0: under none).
SweepFrom(reg, keys, t, recoveredCount, failedCheck) ==
    IF keys = <<>> THEN [reg |-> reg, recoveredCount |-> recoveredCount]
    ELSE CHOOSE rest \in
            {SweepFrom(r.reg, Tail(keys), t,
                       IF r.res.recovered THEN recoveredCount + 1 ELSE recoveredCount,
                       IF failedCheck = 0 THEN 0 ELSE failedCheck - 1) :
             r \in {IF failedCheck = 1
                    THEN checkAndRecoverStoreDown(reg, Head(keys))
                    ELSE checkAndRecover(reg, Head(keys), t, 0)}} : TRUE

\* One firing of the auto-recovery timer: nothing when the breaker or the
\* auto-recovery is switched off, else _runAutoRecovery, the scan of
\* failedType throwing and the store failing under the failedCheck-th check.
autoRecoveryTick(failedType, failedCheck) ==
    LET cfg == breakerGetConfig(bWeb)
    IN /\ UNCHANGED <<now, bWeb, b403, scan, bPend>>
       /\ UNCHANGED nonBreakerVars
       /\ IF ~cfg.enabled \/ ~cfg.autoRecovery
          THEN /\ failedType = "" /\ failedCheck = 0
               /\ UNCHANGED accounts
               /\ bRes' = [BreakerResult("sweep", NoBreakerResult.key) EXCEPT !.state = "disabled"]
          ELSE \E keys \in {SweepKeys(accounts, failedType)} :
               \E r \in {SweepFrom(accounts, keys, now, 0, failedCheck)} :
                  /\ failedCheck <= Len(keys)
                  /\ accounts' = r.reg
                  /\ bRes' = [BreakerResult("sweep", NoBreakerResult.key) EXCEPT
                                 !.errorCount = r.recoveredCount,
                                 !.checked = keys, !.failedType = failedType,
                                 !.failedCheck = failedCheck,
                                 !.storeOk = (failedType = "" /\ failedCheck = 0)]

\* The clock moves to the next instant of the breaker's time line.
BreakerTick(times) ==
    /\ \E t \in times :
          /\ t > now
          /\ \A u \in times : u > now => t <= u
          /\ now' = t
    /\ UNCHANGED <<accounts, bWeb, b403, bRes, scan, bPend>>
    /\ UNCHANGED nonBreakerVars

\* The prefix scan of one account type, one call of the store's scan at a
\* time.  ScanOrder above is what the scans of a sweep give against a store
\* that answers each with every key once.
MAX_ITERATIONS == 1000

\* The ids a scan is let collect before the store's pages come back empty.
MaxScanIds == 2
ScanTypes == {"gemini_account"}
ScanCursors == {"0", "17"}

\* The pages the store may answer a scan of accountType with.
ScanPages(accountType) ==
    {<<>>} \cup {<<k>> : k \in {x \in AccountKeys : x[1] = accountType}}

\* key.replace(`${accountType}:`, ''): the key <accountType>:<id> without
\* its prefix.
ScanKeyToId(accountType, key) == IF key[1] = accountType THEN key[2] ELSE key

RECURSIVE ScanIdsOf(_, _)
ScanIdsOf(accountType, keys) ==
    IF keys = <<>> THEN <<>>
    ELSE <<ScanKeyToId(accountType, Head(keys))>> \o ScanIdsOf(accountType, Tail(keys))

\* No scan running and none returned yet.  ret: the list returned last;
\* failed: the store threw in the call that ended the scan; calls: the scan
\* calls the returned scan made; lastCursor: the cursor of its last reply.
ScanIdle ==
    [pc |-> "idle", accountType |-> "", cursor |-> "0", iterations |-> 0,
     accountIds |-> <<>>, returned |-> FALSE, ret |-> <<>>, failed |-> FALSE,
     calls |-> 0, lastCursor |-> "0"]

\* A loop that never gives up.
reachedMaxIterationsNever(iterations) == FALSE

\* if (iterations >= MAX_ITERATIONS) break
reachedMaxIterations(iterations) == iterations >= MAX_ITERATIONS

\* _scanAccountsByType is entered.
scanAccountsByType(accountType) ==
    /\ scan.pc = "idle"
    /\ scan' = [ScanIdle EXCEPT !.pc = "loop", !.accountType = accountType]
    /\ UNCHANGED <<now, accounts, bWeb, b403, bRes, bPend>>
    /\ UNCHANGED nonBreakerVars

\* One turn of the do-while loop: the scan call (ok = FALSE: it throws and
\* the catch returns []), the cursor and the counter, the ids of the page,
\* the cap, the loop condition.
scanCall(ok, newCursor, keys) ==
    LET iterations == scan.iterations + 1
        accountIds == scan.accountIds \o ScanIdsOf(scan.accountType, keys)
    IN /\ scan.pc = "loop"
       /\ UNCHANGED <<now, accounts, bWeb, b403, bRes, bPend>>
       /\ UNCHANGED nonBreakerVars
       /\ IF ~ok
          THEN /\ newCursor = "0" /\ keys = <<>>
               /\ scan' = [ScanIdle EXCEPT !.accountType = scan.accountType,
                                           !.returned = TRUE, !.ret = <<>>,
                                           !.failed = TRUE, !.calls = iterations,
                                           !.lastCursor = scan.cursor]
          ELSE /\ Len(accountIds) <= MaxScanIds
               /\ IF reachedMaxIterations(iterations) \/ newCursor = "0"
                  THEN scan' = [ScanIdle EXCEPT !.accountType = scan.accountType,
                                               !.returned = TRUE, !.ret = accountIds,
                                               !.calls = iterations,
                                               !.lastCursor = newCursor]
                  ELSE scan' = [scan EXCEPT !.cursor = newCursor,
                                            !.iterations = iterations,
                                            !.accountIds = accountIds]

BreakerStart ==
    /\ accounts = RegistryInit
    /\ b403 = [id \in AccountIds |-> <<>>]
    /\ bRes = NoBreakerResult
    /\ scan = ScanIdle
    /\ bPend = None

\* The breaker before its first call, for each web configuration.
BreakerInit == BreakerStart /\ bWeb \in BreakerWebConfigs

\* The breaker left unused.
BreakerQuiet == BreakerStart /\ bWeb = None

(***************************************************************************)
(* Account rate limiter (AccountRateLimitService)                          *)
(***************************************************************************)

MaxAcquires == 3
RateCallers == {1, 2}
RateTimes == {10000, 11000, 12000}
POLL_INTERVAL_BASE_MS == 50
POLL_INTERVAL_MAX_MS == 500

\* config.accountRateLimit || {} with the section left out of the file.
rateLimitConfig ==
    [enabled |-> None, windowSeconds |-> None, maxRequests |-> None,
     queueTimeoutMs |-> None, enableQueueing |-> None]

NoRateWebConfig ==
    [accountRateLimitEnabled |-> None, accountRateLimitWindowSeconds |-> None,
     accountRateLimitMaxRequests |-> None, accountRateLimitQueueTimeoutMs |-> None,
     accountRateLimitEnableQueueing |-> None]

\* What claudeRelayConfigService.getConfig() gives (None: it throws).
RateWebConfigs ==
    {None,
     Some([NoRateWebConfig EXCEPT !.accountRateLimitEnabled = Some(TRUE),
                                  !.accountRateLimitWindowSeconds = Some(1),
                                  !.accountRateLimitMaxRequests = Some(1),
                                  !.accountRateLimitQueueTimeoutMs = Some(1500)]),
     Some([NoRateWebConfig EXCEPT !.accountRateLimitEnabled = Some(TRUE),
                                  !.accountRateLimitWindowSeconds = Some(1),
                                  !.accountRateLimitMaxRequests = Some(1),
                                  !.accountRateLimitEnableQueueing = Some(FALSE)])}

\* getConfig of the rate limiter.
rateGetConfig(web) ==
    LET defaults ==
            [enabled |-> Coalesce(rateLimitConfig.enabled, FALSE),
             windowSeconds |-> Coalesce(rateLimitConfig.windowSeconds, 60),
             maxRequests |-> Coalesce(rateLimitConfig.maxRequests, 20),
             queueTimeoutMs |-> Coalesce(rateLimitConfig.queueTimeoutMs, 30000),
             enableQueueing |-> Coalesce(rateLimitConfig.enableQueueing, TRUE)]
    IN IF web = None THEN defaults
       ELSE [enabled |-> Coalesce(Val(web).accountRateLimitEnabled, defaults.enabled),
             windowSeconds |->
                 Coalesce(Val(web).accountRateLimitWindowSeconds, defaults.windowSeconds),
             maxRequests |->
                 Coalesce(Val(web).accountRateLimitMaxRequests, defaults.maxRequests),
             queueTimeoutMs |->
                 Coalesce(Val(web).accountRateLimitQueueTimeoutMs, defaults.queueTimeoutMs),
             enableQueueing |->
                 Coalesce(Val(web).accountRateLimitEnableQueueing, defaults.enableQueueing)]

\* A getAccountConfig that lets the account hash set the queue settings too.
rateGetAccountConfigAllFields(reg, web, accountId) ==
    LET globalConfig == rateGetConfig(web)
        accountData == getAccountData(reg, accountId)
    IN IF accountData # None /\ Val(accountData).rateLimitQueueTimeoutMs # None
       THEN [globalConfig EXCEPT
                !.queueTimeoutMs = ParseInt(Val(Val(accountData).rateLimitQueueTimeoutMs))]
       ELSE globalConfig

\* getAccountConfig of the rate limiter: enabled, windowSeconds and maxRequests
\* can be overridden by the account hash.
rateGetAccountConfig(reg, web, accountId) ==
    LET globalConfig == rateGetConfig(web)
        accountData == getAccountData(reg, accountId)
    IN IF accountData # None
       THEN LET d == Val(accountData)
            IN [enabled |-> IF d.rateLimitEnabled # None
                            THEN Val(d.rateLimitEnabled) = "true"
                            ELSE globalConfig.enabled,
                windowSeconds |-> IF d.rateLimitWindowSeconds # None
                                  THEN ParseInt(Val(d.rateLimitWindowSeconds))
                                  ELSE globalConfig.windowSeconds,
                maxRequests |-> IF d.rateLimitMaxRequests # None
                                THEN ParseInt(Val(d.rateLimitMaxRequests))
                                ELSE globalConfig.maxRequests,
                queueTimeoutMs |-> globalConfig.queueTimeoutMs,
                enableQueueing |-> globalConfig.enableQueueing]
       ELSE globalConfig

\* The entries of a rate window younger than windowSeconds at time t.
LiveEntries(win, t, windowSeconds) == {e \in win : e.ts > t - windowSeconds * 1000}

\* The oldest timestamp of a window (None: the window is empty).
OldestOf(win) ==
    IF win = {} THEN None
    ELSE Some((CHOOSE e \in win : \A f \in win : e.ts <= f.ts).ts)

\* redis.acquireAccountRateLimit: the expired entries are evicted and the
\* request is counted when that leaves the count within maxRequests; a request
\* that is not admitted leaves no entry.
storeAcquireAccountRateLimit(win, requestId, windowSeconds, maxRequests, t) ==
    LET live == LiveEntries(win, t, windowSeconds)
        added == live \cup {[id |-> requestId, ts |-> t]}
    IN IF Cardinality(added) <= maxRequests
       THEN [win |-> added, acquired |-> TRUE, currentCount |-> Cardinality(added),
             oldestRequestTime |-> OldestOf(added)]
       ELSE [win |-> live, acquired |-> FALSE, currentCount |-> Cardinality(live),
             oldestRequestTime |-> OldestOf(live)]

\* redis.releaseAccountRateLimit: the entry of the request is removed.
storeReleaseAccountRateLimit(win, requestId) ==
    [win |-> {e \in win : e.id # requestId},
     released |-> \E e \in win : e.id = requestId]

\* redis.getAccountRateLimitStatus.
storeGetAccountRateLimitStatus(win, windowSeconds, t) ==
    LET live == LiveEntries(win, t, windowSeconds)
    IN [currentCount |-> Cardinality(live), oldestRequestTime |-> OldestOf(live)]

\* A caller that takes every answer of the store for an admission.
resultAcquiredAlways(result) == TRUE

\* if (result.acquired)
resultAcquired(result) == result.acquired

\* The poll intervals are fractions of a millisecond: they are computed in
\* units of 1/PollScale ms, in which every value the code computes before the
\* cap and every jitter factor of JitterPercents is a whole number.
PollScale == 64 * 100

\* Math.min(POLL_INTERVAL_BASE_MS * Math.pow(POLL_BACKOFF_FACTOR, retryCount),
\* POLL_INTERVAL_MAX_MS), in units of 1/PollScale ms; capping every step
\* gives the same as capping the power.
RECURSIVE basePollInterval(_)
basePollInterval(retryCount) ==
    IF retryCount = 0 THEN POLL_INTERVAL_BASE_MS * PollScale
    ELSE Min((basePollInterval(retryCount - 1) * 3) \div 2,
             POLL_INTERVAL_MAX_MS * PollScale)

\* The jitter factors 0.85 + Math.random() * 0.3, in percent.
JitterPercents == {85, 100, 115}

\* A poll interval without the cap: two seconds whatever the retry.
pollIntervalUncapped(retryCount, jitterPercent) == 2000

\* jitter = basePollInterval * (0.85 + Math.random() * 0.3), in units of
\* 1/PollScale ms.
jitter(retryCount, jitterPercent) == (basePollInterval(retryCount) * jitterPercent) \div 100

\* A poll interval that is not capped after the jitter.
pollIntervalScaledUncapped(retryCount, jitterPercent) == jitter(retryCount, jitterPercent)

\* pollInterval = Math.min(jitter, POLL_INTERVAL_MAX_MS), in units of 1/PollScale ms.
pollIntervalScaled(retryCount, jitterPercent) ==
    Min(jitter(retryCount, jitterPercent), POLL_INTERVAL_MAX_MS * PollScale)

\* The whole milliseconds of the poll interval the timer is armed with.
pollInterval(retryCount, jitterPercent) ==
    pollIntervalScaled(retryCount, jitterPercent) \div PollScale

\* if (!cfg.enabled): a limiter that is never taken for disabled.
isDisabledNever(cfg) == FALSE

\* if (!cfg.enabled)
isDisabled(cfg) == ~cfg.enabled

\* while (Date.now() - startTime < cfg.queueTimeoutMs)
withinTimeout(elapsedMs, queueTimeoutMs) == elapsedMs < queueTimeoutMs

\* A limiter that queues whatever the configuration says.
queueingDisabledNever(cfg) == FALSE

\* if (!cfg.enableQueueing)
queueingDisabled(cfg) == ~cfg.enableQueueing

\* waitMs: how long until the oldest counted request leaves the window, at
\* the time t the caller reads the clock (0 when the store names no oldest).
rateWaitMs(result, windowSeconds, t) ==
    IF result.oldestRequestTime # None /\ Val(result.oldestRequestTime) # 0
    THEN Max(0, Val(result.oldestRequestTime) + windowSeconds * 1000 - t)
    ELSE 0

\* const remainingTimeout = cfg.queueTimeoutMs - (Date.now() - startTime)
remainingTimeoutMs(queueTimeoutMs, startTime, t) == queueTimeoutMs - (t - startTime)

\* A limiter that sleeps however long the wait is.
waitTooLongNever(waitMs, remainingTimeout) == FALSE

\* if (waitMs > remainingTimeout)
waitTooLong(waitMs, remainingTimeout) == waitMs > remainingTimeout

\* What the store told the caller: acquired, currentCount, oldestRequestTime.
NoStoreResult == [acquired |-> FALSE, currentCount |-> 0, oldestRequestTime |-> None]

\* The locals of a running acquireRateLimit; with them, for the properties:
\* when the store ran the last attempt (storeAt), whether the window was full
\* then, how many attempts the call has made, whether it has slept, and
\* whether a reply of the store reached the caller after the clock had moved
\* on, and the poll interval of its last sleep in units of 1/PollScale ms (0:
\* it slept until the oldest entry expires, or not at all).
RateIdle ==
    [accountId |-> "A", requestId |-> 0, startTime |-> 0, retryCount |-> 0,
     wakeAt |-> 0,
     cfg |-> [enabled |-> FALSE, windowSeconds |-> 0, maxRequests |-> 0,
              queueTimeoutMs |-> 0, enableQueueing |-> FALSE],
     result |-> NoStoreResult, storeAt |-> 0, full |-> FALSE, attempts |-> 0,
     slept |-> FALSE, lag |-> FALSE, polled |-> 0]

\* What acquireRateLimit returned; with it, for the properties: the caller,
\* where the call returned from ("disabled", "loop", "catch", "reply"), when it
\* started and returned, and the attempts, sleep and lag of the call.
RateResult(accountId, requestId, acquired, skipped, error, waitedMs) ==
    [accountId |-> accountId, requestId |-> requestId, acquired |-> acquired,
     skipped |-> skipped, error |-> error, waitedMs |-> waitedMs,
     caller |-> 0, from |-> "none", startTime |-> 0, returnedAt |-> 0,
     queueTimeoutMs |-> 0, enableQueueing |-> FALSE,
     attempts |-> 0, slept |-> FALSE, lag |-> FALSE, replyLag |-> FALSE,
     released |-> FALSE]

NoRateResult == RateResult("A", 0, FALSE, FALSE, "none", None)

\* An acquireRateLimit call returning from a turn that began with the caller in
\* the state call.
RateReturn(c, call, from, res) ==
    /\ rRes' = [res EXCEPT !.caller = c, !.from = from,
                           !.startTime = call.startTime, !.returnedAt = now,
                           !.queueTimeoutMs = call.cfg.queueTimeoutMs,
                           !.enableQueueing = call.cfg.enableQueueing,
                           !.attempts = call.attempts, !.slept = call.slept,
                           !.lag = call.lag,
                           !.replyLag = (from = "reply" /\ now > call.storeAt)]
    /\ rPc' = [rPc EXCEPT ![c] = "idle"]
    /\ rCall' = [rCall EXCEPT ![c] = RateIdle]
    /\ rAdm' = IF res.acquired /\ ~res.skipped
               THEN Append(rAdm, [accountId |-> res.accountId, ts |-> call.storeAt])
               ELSE rAdm

\* A catch block that takes a store failure for an admission.
backendErrorAdmits(call) ==
    RateResult(call.accountId, call.requestId, TRUE, FALSE, "none", None)

\* catch (error): { acquired: false, requestId, error: 'rate_limit_backend_error' }
backendErrorResult(call) ==
    RateResult(call.accountId, call.requestId, FALSE, FALSE,
               "rate_limit_backend_error", None)

\* acquireRateLimit up to its loop: the configuration is resolved; a disabled
\* limiter admits at once (skipped), else the request id is made and startTime
\* is taken.
acquireRateLimit(c, accountId) ==
    LET cfg == rateGetAccountConfig(accounts, rWeb, accountId)
        reqId == rNextId
        call == [RateIdle EXCEPT !.accountId = accountId, !.requestId = reqId,
                                 !.startTime = now, !.storeAt = now, !.cfg = cfg]
    IN /\ rPc[c] = "idle"
       /\ rNextId <= MaxAcquires
       /\ rNextId' = rNextId + 1
       /\ UNCHANGED <<now, accounts, rWeb, rWin>>
       /\ UNCHANGED nonRateVars
       /\ IF isDisabled(cfg)
          THEN RateReturn(c, call, "disabled",
                          RateResult(accountId, reqId, TRUE, TRUE, "none", None))
          ELSE /\ rPc' = [rPc EXCEPT ![c] = "loop"]
               /\ rCall' = [rCall EXCEPT ![c] = call]
               /\ UNCHANGED <<rRes, rAdm>>

\* The head of a turn of the loop: the loop condition, and the call to the
\* store, which runs the operation at once (ok = FALSE: the call throws and
\* the catch block returns).
rateAttempt(c, ok) ==
    LET call == rCall[c]
        cfg == call.cfg
        result == storeAcquireAccountRateLimit(rWin[call.accountId], call.requestId,
                                               cfg.windowSeconds, cfg.maxRequests, now)
        fail(error) == RateResult(call.accountId, call.requestId, FALSE, FALSE, error, None)
        tried == [call EXCEPT !.attempts = call.attempts + 1, !.storeAt = now]
    IN /\ rPc[c] = "loop"
       /\ UNCHANGED <<now, accounts, rWeb, rNextId>>
       /\ UNCHANGED nonRateVars
       /\ IF ~withinTimeout(now - call.startTime, cfg.queueTimeoutMs)
          THEN /\ ok
               /\ UNCHANGED rWin
               /\ RateReturn(c, call, "loop", fail("queue_timeout"))
          ELSE IF ~ok
          THEN /\ UNCHANGED rWin
               /\ RateReturn(c, tried, "catch", backendErrorResult(call))
          ELSE /\ rWin' = [rWin EXCEPT ![call.accountId] = result.win]
               /\ rPc' = [rPc EXCEPT ![c] = "reply"]
               /\ rCall' = [rCall EXCEPT ![c] =
                     [tried EXCEPT
                        !.result = [acquired |-> result.acquired,
                                    currentCount |-> result.currentCount,
                                    oldestRequestTime |-> result.oldestRequestTime],
                        !.full = Cardinality(LiveEntries(rWin[call.accountId], now,
                                                         cfg.windowSeconds))
                                    >= cfg.maxRequests]]
               /\ UNCHANGED <<rRes, rAdm>>

\* The rest of the turn, run when the reply of the store has come: the caller
\* returns, or computes its wait from the clock as it is now and sleeps.
rateReply(c, jitterPercent) ==
    LET call == [rCall[c] EXCEPT !.lag = rCall[c].lag \/ now > rCall[c].storeAt]
        cfg == call.cfg
        result == call.result
        waitMs == rateWaitMs(result, cfg.windowSeconds, now)
        remainingTimeout == remainingTimeoutMs(cfg.queueTimeoutMs, call.startTime, now)
        fail(error) == RateResult(call.accountId, call.requestId, FALSE, FALSE, error, None)
    IN /\ rPc[c] = "reply"
       /\ UNCHANGED <<now, accounts, rWeb, rWin, rNextId>>
       /\ UNCHANGED nonRateVars
       /\ IF resultAcquired(result)
          THEN /\ jitterPercent = 100
               /\ RateReturn(c, call, "reply",
                             RateResult(call.accountId, call.requestId, TRUE, FALSE,
                                        "none", Some(now - call.startTime)))
          ELSE IF queueingDisabled(cfg)
          THEN /\ jitterPercent = 100
               /\ RateReturn(c, call, "reply", fail("rate_limit_exceeded"))
          ELSE IF waitTooLong(waitMs, remainingTimeout)
          THEN /\ jitterPercent = 100
               /\ RateReturn(c, call, "reply", fail("queue_timeout"))
          ELSE /\ UNCHANGED <<rRes, rAdm>>
               /\ rPc' = [rPc EXCEPT ![c] = "sleep"]
               /\ IF waitMs > 0
                  THEN /\ jitterPercent = 100
                       /\ rCall' = [rCall EXCEPT ![c] =
                             [call EXCEPT !.slept = TRUE, !.polled = 0,
                                          !.wakeAt = now + Min(waitMs, remainingTimeout)]]
                  ELSE rCall' = [rCall EXCEPT ![c] =
                             [call EXCEPT
                                !.slept = TRUE,
                                !.wakeAt = now + pollInterval(call.retryCount, jitterPercent),
                                !.polled = pollIntervalScaled(call.retryCount, jitterPercent),
                                !.retryCount = call.retryCount + 1]]

\* The sleep of the loop is over.
rateWake(c) ==
    /\ rPc[c] = "sleep"
    /\ now >= rCall[c].wakeAt
    /\ rPc' = [rPc EXCEPT ![c] = "loop"]
    /\ UNCHANGED <<now, accounts, rWeb, rWin, rCall, rRes, rAdm, rNextId>>
    /\ UNCHANGED nonRateVars

\* A releaseRateLimit that takes every request id for given.
requestIdMissingNever(requestId) == FALSE

\* !accountId, !requestId: "" is the absent account id, 0 the absent request
\* id (the request ids handed out start with 1).
accountIdMissing(accountId) == accountId = ""
requestIdMissing(requestId) == requestId = 0

\* releaseRateLimit of a request id handed out before, or of none (ok = FALSE:
\* the store throws, and so does releaseRateLimit).
releaseRateLimit(accountId, requestId, ok) ==
    LET res == [RateResult(accountId, requestId, FALSE, FALSE, "none", None)
                   EXCEPT !.from = "release"]
    IN /\ requestId < rNextId
       /\ UNCHANGED <<now, accounts, rWeb, rPc, rCall, rAdm, rNextId>>
       /\ UNCHANGED nonRateVars
       /\ IF accountIdMissing(accountId) \/ requestIdMissing(requestId)
          THEN /\ ok
               /\ UNCHANGED rWin
               /\ rRes' = [res EXCEPT !.error = "not_released"]
          ELSE LET r == storeReleaseAccountRateLimit(rWin[accountId], requestId)
               IN /\ accountId \in AccountIds
                  /\ rWin' = IF ok THEN [rWin EXCEPT ![accountId] = r.win] ELSE rWin
                  /\ rRes' = [res EXCEPT
                                 !.attempts = 1,
                                 !.released = ok /\ r.released,
                                 !.error = IF ~ok THEN "threw"
                                           ELSE IF r.released THEN "released"
                                           ELSE "not_released"]

\* The clock moves to the next instant of the rate limiter's time line; a
\* timer fires at that instant or later.
RateTick ==
    /\ \E t \in RateTimes :
          /\ t > now
          /\ \A u \in RateTimes : u > now => t <= u
          /\ now' = t
    /\ UNCHANGED <<accounts, rWeb, rWin, rPc, rCall, rRes, rAdm, rNextId>>
    /\ UNCHANGED nonRateVars

\* The instants at which a timed run starts calls and receives replies.
RateTimedTimes == {10000, 10100, 11000, 11580, 12200}

\* The instants the clock can move to in a timed run: those of the time line
\* and the due times of the sleeping callers.
RateTimedInstants ==
    RateTimedTimes \cup {rCall[c].wakeAt : c \in {d \in RateCallers : rPc[d] = "sleep"}}

\* The clock of a timed run: timers fire exactly when due and the code between
\* two awaits takes no time, so the clock stands still while a caller is at
\* the head of its loop or its timer is due, and never jumps over a due time.
RateTimedTick ==
    /\ \A c \in RateCallers :
          /\ rPc[c] # "loop"
          /\ rPc[c] = "sleep" => rCall[c].wakeAt > now
    /\ \E t \in RateTimedInstants :
          /\ t > now
          /\ \A u \in RateTimedInstants : u > now => t <= u
          /\ now' = t
    /\ UNCHANGED <<accounts, rWeb, rWin, rPc, rCall, rRes, rAdm, rNextId>>
    /\ UNCHANGED nonRateVars

RateStart ==
    /\ rWin = [id \in AccountIds |-> {}]
    /\ rPc = [c \in RateCallers |-> "idle"]
    /\ rCall = [c \in RateCallers |-> RateIdle]
    /\ rRes = NoRateResult
    /\ rAdm = <<>>
    /\ rNextId = 1

\* The rate limiter before its first call, for each web configuration.
RateInit == RateStart /\ rWeb \in RateWebConfigs

\* The rate limiter left unused.
RateQuiet == RateStart /\ rWeb = None

\* The steps of the acquireRateLimit calls of callers.
RateCalls(callers) ==
    \/ \E c \in callers, id \in AccountIds : acquireRateLimit(c, id)
    \/ \E c \in callers, ok \in BOOLEAN : rateAttempt(c, ok)
    \/ \E c \in callers, j \in JitterPercents : rateReply(c, j)
    \/ \E c \in callers : rateWake(c)

\* Concurrent acquireRateLimit calls.
RateAcquireNext == RateCalls(RateCallers) \/ RateTick

\* The releaseRateLimit calls: of any account or none, of any request id
\* handed out or none.
RateReleases ==
    \E accountId \in AccountIds \cup {""}, requestId \in 0..MaxAcquires, ok \in BOOLEAN :
       releaseRateLimit(accountId, requestId, ok)

\* The calls of one caller, one after the other, on the exact clock.
RateTimedNext == RateCalls({1}) \/ RateTimedTick

\* The first store write of an update throws (1) or none does (0).
FailAts == 0..1

\* The account type whose scan throws in a sweep ("": none) and the check of
\* a sweep under which the store fails (0: none), the store failing as oks allow.
SweepFailTypes(oks) ==
    IF FALSE \in oks THEN {""} \cup {k[1] : k \in AccountKeys} ELSE {""}
SweepFailChecks(oks) == IF FALSE \in oks THEN 0..Cardinality(AccountKeys) ELSE {0}

\* The breaker's operations aimed at the accounts of targets, the clock moving
\* along times, the store failing as fails and oks allow.
BreakerNext(targets, times, fails, oks) ==
    \/ \E key \in targets, okStore \in oks, failAt \in fails :
          record403Error(key, okStore, failAt)
    \/ \E key \in targets, failAt \in fails : halfOpenCircuitBreaker(key, failAt)
    \/ \E key \in targets, okClear \in oks, failAt \in fails :
          closeCircuitBreaker(key, okClear, failAt)
    \/ \E key \in targets, failAt \in fails : checkAndRecoverBreaker(key, failAt)
    \/ \E key \in targets, ok \in oks : getBreakerStatus(key, ok)
    \/ \E failedType \in SweepFailTypes(oks), failedCheck \in SweepFailChecks(oks) :
          autoRecoveryTick(failedType, failedCheck)
    \/ BreakerTick(times)

Init == now = 10000 /\ GuardInit /\ BreakerInit /\ RateInit

GuardNext(callers, keys, times) ==
    \/ \E c \in callers, k \in keys, w \in MaxWaits, m \in MinIntervals, cl \in BOOLEAN :
          checkAndWait(c, k, w, m, cl)
    \/ \E c \in callers, ok \in BOOLEAN : checkAndWaitWithRedis(c, ok)
    \/ \E c \in callers, ok \in BOOLEAN : wakeRedis(c, ok)
    \/ \E c \in callers : wakeMemory(c)
    \/ GuardTick(times)

\* One caller issuing its calls back to back, on any key.
GuardSeqNext ==
    \/ GuardNext({1}, GuardKeys, GuardTimes)
    \/ \E k \in GuardKeys, ok \in BOOLEAN : recordRequest(k, ok)
    \/ cleanupMemoryCache

GuardSeqInit == now = 10000 /\ GuardInit /\ BreakerQuiet /\ RateQuiet
SpecGuardSeq == GuardSeqInit /\ [][GuardSeqNext]_vars

\* The operations on the account id "A", one after the other, the store
\* failing at will.
BreakerSeqInit == now = 10000 /\ GuardQuiet /\ RateQuiet /\ BreakerInit
BreakerSeqNext == BreakerNext({<<"claude_account", "A">>}, BreakerTimes, FailAts, BOOLEAN)
SpecBreaker == BreakerSeqInit /\ [][BreakerSeqNext]_vars

\* The web configuration leaves the window at its default or sets it to a minute.
BreakerWindowConfigs ==
    {None, Some([NoWebConfig EXCEPT !.error403WindowSeconds = Some(60)])}

\* The operations on the account id "A" under either window, within a bit
\* more than a minute.
BreakerWindowInit ==
    now = 10000 /\ GuardQuiet /\ RateQuiet /\ BreakerStart /\ bWeb \in BreakerWindowConfigs
BreakerWindowNext ==
    BreakerNext({<<"claude_account", "A">>}, BreakerTimesShort, {0}, BOOLEAN)
SpecBreakerWindow == BreakerWindowInit /\ [][BreakerWindowNext]_vars

\* The operations aimed at two accounts of one type, one after the other,
\* within a minute and with the store working.
BreakerKeysInit == now = 10000 /\ GuardQuiet /\ RateQuiet /\ BreakerInit
BreakerKeysNext ==
    BreakerNext({<<"gemini_account", "A">>, <<"gemini_account", "B">>},
                BreakerTimesShort, {0}, {TRUE})
SpecBreakerKeys == BreakerKeysInit /\ [][BreakerKeysNext]_vars

\* Any one store write of an update throws (1..3) or none does (0): what a
\* failed write leaves behind is what a reader sees between that write and
\* the one before it.
WriteFailAts == 0..3

\* The operations on the account id "A" within a minute, an update stopping
\* after any of its writes.
BreakerWritesInit == now = 10000 /\ GuardQuiet /\ RateQuiet /\ BreakerInit
BreakerWritesNext ==
    BreakerNext({<<"claude_account", "A">>}, BreakerTimesShort, WriteFailAts, {TRUE})
SpecBreakerWrites == BreakerWritesInit /\ [][BreakerWritesNext]_vars

\* The operations on an account of the first type and on one of a later
\* type within a bit more than a minute, sweeps meeting store failures.
BreakerSweepInit == now = 10000 /\ GuardQuiet /\ RateQuiet /\ BreakerInit
BreakerSweepNext ==
    BreakerNext({<<"claude_account", "A">>, <<"gemini_account", "B">>},
                BreakerTimesShort, {0}, BOOLEAN)
SpecBreakerSweep == BreakerSweepInit /\ [][BreakerSweepNext]_vars

\* Accounts of the first type and of a later type are opened by their 403
\* errors and closed by hand with the store working, while the interval timer
\* of the auto-recovery task keeps firing.
BreakerLiveKeys == {<<"claude_account", "A">>, <<"gemini_account", "B">>}
BreakerLiveInit == now = 10000 /\ GuardQuiet /\ RateQuiet /\ BreakerInit
BreakerLiveNext ==
    \/ \E key \in BreakerLiveKeys : record403Error(key, TRUE, 0)
    \/ \E key \in BreakerLiveKeys : closeCircuitBreaker(key, TRUE, 0)
    \/ autoRecoveryTick("", 0)
    \/ BreakerTick(BreakerTimesShort)
SpecBreakerLive ==
    BreakerLiveInit /\ [][BreakerLiveNext]_vars /\ WF_vars(autoRecoveryTick("", 0))

\* Scans of an account type against a store that answers as it likes.
ScanInit == now = 10000 /\ GuardQuiet /\ RateQuiet /\ BreakerQuiet
ScanNext ==
    \/ \E accountType \in ScanTypes : scanAccountsByType(accountType)
    \/ \E ok \in BOOLEAN, newCursor \in ScanCursors, keys \in ScanPages(scan.accountType) :
          scanCall(ok, newCursor, keys)
SpecScan == ScanInit /\ [][ScanNext]_vars

\* The operations on two accounts with the store working, the account hashes
\* with or without settings of their own.
BreakerOverridesInit ==
    /\ now = 10000 /\ GuardQuiet /\ RateQuiet
    /\ accounts \in Registries
    /\ b403 = [id \in AccountIds |-> <<>>]
    /\ bRes = NoBreakerResult
    /\ scan = ScanIdle
    /\ bPend = None
    /\ bWeb \in BreakerWebConfigs
BreakerOverridesNext ==
    BreakerNext({<<"claude_account", "A">>, <<"gemini_account", "B">>},
                BreakerTimesShort, {0}, {TRUE})
SpecBreakerOverrides == BreakerOverridesInit /\ [][BreakerOverridesNext]_vars

\* A checkAndRecoverBreaker of account A running beside the record403Error
\* and closeCircuitBreaker calls of other tasks, the store working.
BreakerConcInit == now = 10000 /\ GuardQuiet /\ RateQuiet /\ BreakerInit
BreakerConcNext ==
    \/ record403Error(<<"claude_account", "A">>, TRUE, 0)
    \/ closeCircuitBreaker(<<"claude_account", "A">>, TRUE, 0)
    \/ checkAndRecoverRead(<<"claude_account", "A">>)
    \/ checkAndRecoverWrite
    \/ BreakerTick(BreakerTimes)
SpecBreakerConc == BreakerConcInit /\ [][BreakerConcNext]_vars

\* The operations that write the breaker state of account B, whose hash
\* holds settings of its own, beside another mechanism writing that hash.
BreakerFieldsOps ==
    \/ record403Error(<<"gemini_account", "B">>, TRUE, 0)
    \/ halfOpenCircuitBreaker(<<"gemini_account", "B">>, 0)
    \/ closeCircuitBreaker(<<"gemini_account", "B">>, TRUE, 0)
    \/ checkAndRecoverRead(<<"gemini_account", "B">>)
    \/ checkAndRecoverWrite
BreakerFieldsInit == now = 10000 /\ GuardQuiet /\ RateQuiet /\ BreakerInit
BreakerFieldsNext ==
    \/ BreakerFieldsOps
    \/ registryWrite(<<"gemini_account", "B">>)
    \/ BreakerTick(BreakerTimes)
SpecBreakerFields == BreakerFieldsInit /\ [][BreakerFieldsNext]_vars

\* The two services resolving the configuration of accounts whose hashes
\* hold settings of their own or none, under each web configuration.
ConfigInit ==
    /\ now = 10000 /\ GuardQuiet /\ RateInit
    /\ accounts \in Registries
    /\ b403 = [id \in AccountIds |-> <<>>]
    /\ bRes = NoBreakerResult
    /\ scan = ScanIdle
    /\ bPend = None
    /\ bWeb \in BreakerWebConfigs
ConfigNext ==
    \/ \E key \in BreakerLiveKeys : getBreakerStatus(key, TRUE)
    \/ RateCalls({1})
    \/ RateTick
SpecConfig == ConfigInit /\ [][ConfigNext]_vars

\* One caller whose calls start before the last of GuardLiveTimes, on a clock that reaches
\* the due time of every sleep; the store answers or fails in the end, timers
\* fire and time goes on.
GuardLiveTimes == {10000, 10100, 10900, 11000}
GuardLiveInstants ==
    GuardLiveTimes
       \cup {gCall[c].wakeAt : c \in {d \in GuardCallers :
                                         gPc[d] \in {"sleepRedis", "sleepMemory"}}}
GuardLiveInit == now = 10000 /\ GuardInit /\ BreakerQuiet /\ RateQuiet
GuardLiveNext ==
    \/ \E k \in GuardKeys, w \in MaxWaits, m \in MinIntervals, cl \in BOOLEAN :
          (\E t \in GuardLiveTimes : t > now) /\ checkAndWait(1, k, w, m, cl)
    \/ \E ok \in BOOLEAN : checkAndWaitWithRedis(1, ok)
    \/ \E ok \in BOOLEAN : wakeRedis(1, ok)
    \/ wakeMemory(1)
    \/ GuardTick(GuardLiveInstants)
SpecGuardLive ==
    /\ GuardLiveInit /\ [][GuardLiveNext]_vars
    /\ WF_vars(\E ok \in BOOLEAN : checkAndWaitWithRedis(1, ok))
    /\ WF_vars(\E ok \in BOOLEAN : wakeRedis(1, ok))
    /\ WF_vars(wakeMemory(1))
    /\ WF_vars(GuardTick(GuardLiveInstants))

\* A call started at the first instant of the exact clock for an account whose
\* window takes no request: every attempt is refused with no oldest entry, so
\* the caller polls until its 1500 ms are over.
RatePollInit ==
    /\ now = 10000 /\ GuardQuiet /\ BreakerQuiet /\ RateStart
    /\ rWeb = Some([NoRateWebConfig EXCEPT !.accountRateLimitEnabled = Some(TRUE),
                                           !.accountRateLimitWindowSeconds = Some(1),
                                           !.accountRateLimitMaxRequests = Some(0),
                                           !.accountRateLimitQueueTimeoutMs = Some(1500)])
RatePollNext ==
    \/ \E id \in AccountIds :
          (\A u \in RateTimedTimes : now <= u) /\ acquireRateLimit(1, id)
    \/ \E ok \in BOOLEAN : rateAttempt(1, ok)
    \/ \E j \in JitterPercents : rateReply(1, j)
    \/ rateWake(1)
    \/ RateTimedTick
SpecRatePoll == RatePollInit /\ [][RatePollNext]_vars

\* The calls of one caller on the exact clock for accounts that take one
\* request a second, the caller queueing for a second at most or not at all.
RateQueueConfigs ==
    {Some([NoRateWebConfig EXCEPT !.accountRateLimitEnabled = Some(TRUE),
                                  !.accountRateLimitWindowSeconds = Some(1),
                                  !.accountRateLimitMaxRequests = Some(1),
                                  !.accountRateLimitQueueTimeoutMs = Some(q)]) : q \in {0, 1000}}
RateQueueInit ==
    /\ now = 10000 /\ GuardQuiet /\ BreakerQuiet /\ RateStart
    /\ rWeb \in RateQueueConfigs
SpecRateQueue == RateQueueInit /\ [][RateTimedNext]_vars

\* Requests from any address under any whitelist configuration.
WhitelistInit == now = 10000 /\ GuardQuiet /\ BreakerQuiet /\ RateQuiet
SpecWhitelist == WhitelistInit /\ [][WhitelistNext]_vars

\* Two callers of the same-second guard on one account within two seconds.
LegacyInit == now = 10000 /\ GuardQuiet /\ BreakerQuiet /\ RateQuiet
SpecLegacy == LegacyInit /\ [][LegacyNext]_vars

\* One caller acquiring and releasing slots of the accounts, each of which
\* takes one request a second and queues none.
RateReleaseInit ==
    /\ now = 10000 /\ GuardQuiet /\ BreakerQuiet /\ RateStart
    /\ rWeb = Some([NoRateWebConfig EXCEPT !.accountRateLimitEnabled = Some(TRUE),
                                           !.accountRateLimitWindowSeconds = Some(1),
                                           !.accountRateLimitMaxRequests = Some(1),
                                           !.accountRateLimitEnableQueueing = Some(FALSE)])
RateReleaseNext ==
    \/ \E id \in AccountIds : acquireRateLimit(1, id)
    \/ \E ok \in BOOLEAN : rateAttempt(1, ok)
    \/ \E j \in JitterPercents : rateReply(1, j)
    \/ RateReleases
    \/ RateTick
SpecRateRelease == RateReleaseInit /\ [][RateReleaseNext]_vars

\* One caller issuing its calls back to back with the store answering every
\* access: the store-backed path.
GuardStoreNext ==
    \/ \E k \in GuardKeys, w \in MaxWaits, m \in MinIntervals : checkAndWait(1, k, w, m, TRUE)
    \/ checkAndWaitWithRedis(1, TRUE)
    \/ wakeRedis(1, TRUE)
    \/ \E k \in GuardKeys : recordRequest(k, TRUE)
    \/ cleanupMemoryCache
    \/ GuardTick(GuardTimes)
GuardStoreInit == now = 10000 /\ GuardInit /\ BreakerQuiet /\ RateQuiet
SpecGuardStore == GuardStoreInit /\ [][GuardStoreNext]_vars

\* Concurrent callers of checkAndWait, within two seconds.
GuardConcInit == now = 10000 /\ GuardInit /\ BreakerQuiet /\ RateQuiet
GuardConcNext == GuardNext(GuardCallers, GuardKeys, GuardTimesShort)
SpecGuard == GuardConcInit /\ [][GuardConcNext]_vars

\* Concurrent acquireRateLimit calls on the two account ids.
RateAcquireInit == now = 10000 /\ GuardQuiet /\ BreakerQuiet /\ RateInit
SpecRate == RateAcquireInit /\ [][RateAcquireNext]_vars

\* The calls of one caller on the exact clock, queueing for at most 1500 ms.
RateTimedInit ==
    /\ now = 10000 /\ GuardQuiet /\ BreakerQuiet /\ RateStart
    /\ rWeb = Some([NoRateWebConfig EXCEPT !.accountRateLimitEnabled = Some(TRUE),
                                           !.accountRateLimitWindowSeconds = Some(1),
                                           !.accountRateLimitMaxRequests = Some(1),
                                           !.accountRateLimitQueueTimeoutMs = Some(1500)])
SpecRateTimed == RateTimedInit /\ [][RateTimedNext]_vars

Next ==
    \/ GuardSeqNext
    \/ GuardConcNext
    \/ GuardStoreNext
    \/ BreakerNext(AccountKeys, BreakerTimes, FailAts, BOOLEAN)
    \/ RateAcquireNext
    \/ RateTimedNext
    \/ RateReleases
    \/ LegacyNext
    \/ WhitelistNext
Spec == Init /\ [][Next]_vars

(***************************************************************************)
(* Properties of the request interval guard                                *)
(***************************************************************************)

\* A result admitted on the store path with every store access succeeding.
AdmittedByStore(r) == r.allowed /\ r.path = "redis" /\ r.storeOk

\* A step in which a checkAndWait call returns.
GuardReturnStep ==
    /\ now' = now
    /\ gRes'.path # "none"
    /\ \A c \in GuardCallers : gPc'[c] = "idle" \/ gPc'[c] = gPc[c]

\* The pacing rule between two recorded timestamps.
PacingRule(minIntervalMs, t1, t2) ==
    IF minIntervalMs > 0
    THEN (t2 - t1 >= minIntervalMs) \/ (t1 - t2 >= minIntervalMs)
    ELSE t1 \div 1000 # t2 \div 1000

\* Two back-to-back checkAndWait(key, 1000, 0) calls of one caller, both
\* admitted with the store reachable: gRes is the result of the call before
\* the one that returns in this step.
BackToBackAdmitted ==
    /\ GuardReturnStep
    /\ gMinIntervalMs = 0
    /\ gRes.key = gRes'.key
    /\ gRes.maxWaitMs = 1000 /\ gRes'.maxWaitMs = 1000
    /\ AdmittedByStore(gRes) /\ AdmittedByStore(gRes')

C3_SpacingHolds ==
    \A k \in GuardKeys :
        (/\ gMinIntervalMs > 0
         /\ gAdm[k].prev.byStore /\ gAdm[k].last.byStore
         /\ ~gAdm[k].prev.lag /\ ~gAdm[k].last.lag)
        => Val(gAdm[k].last.ts) - Val(gAdm[k].prev.ts) >= gMinIntervalMs

\* C4: under any interleaving of concurrent checkAndWait calls on one key with
\* the store reachable, the admitted calls satisfy the pacing rule; stated for
\* the callers that were told to wait and were admitted after sleeping, the
\* script of each having run at the instant the call took its currentTimeMs.
C4_PacingUnderConcurrency ==
    \A k \in GuardKeys :
        (/\ gAdm[k].prev.byStore /\ gAdm[k].last.byStore
         /\ gAdm[k].prev.slept /\ gAdm[k].last.slept
         /\ ~gAdm[k].prev.lag /\ ~gAdm[k].last.lag)
        => PacingRule(gMinIntervalMs, Val(gAdm[k].prev.ts), Val(gAdm[k].last.ts))

\* C5: a call whose required wait exceeds maxWaitMs returns allowed=false with
\* waitedMs=0, has not slept, and its returning step leaves the stored
\* timestamp and the memory cache unchanged; no other call is refused.
C5_TimeoutLeavesStateAlone ==
    [][GuardReturnStep =>
          /\ (gRes'.reqWait > gRes'.maxWaitMs) <=> ~gRes'.allowed
          /\ ~gRes'.allowed => /\ gRes'.waitedMs = 0
                                /\ ~gRes'.slept
                                /\ gStore' = gStore
                                /\ gMem' = gMem]_vars

\* A call was refused on the store path while a timestamp was stored and cached.
C5_Witness ==
    /\ ~gRes.allowed /\ gRes.path = "redis" /\ gRes.reqWait > gRes.maxWaitMs
    /\ gStore[gRes.key] # None
    /\ gMem[gRes.key] # None

\* The stored form of a cached timestamp, as the script would read it.
CachedAsStored(k) == IF gMem[k] = None THEN None ELSE Some(NumToString(Val(gMem[k])))

\* C17: a checkAndWait that finds no client, or whose script fails, does not
\* throw: it decides by the script's own rule applied to the memory cache at
\* the current time (admit and cache, refuse, or sleep the computed wait and
\* then admit and cache), leaves the store alone and returns a structured
\* {allowed, waitedMs}; a failed write after the wait of the store path is
\* ignored and the call is admitted and cached.
C17_DegradesToMemory ==
    [][/\ (GuardReturnStep /\ gRes'.failed /\ ~gRes'.slept)
          => LET r == luaScript(CachedAsStored(gRes'.key), now, gMinIntervalMs)
             IN /\ gRes'.path = "memory" /\ gStore' = gStore
                /\ gRes'.waitedMs = 0
                /\ IF r.canExecute = 1
                   THEN gRes'.allowed /\ gMem'[gRes'.key] = Some(now)
                   ELSE /\ r.waitMs > gRes'.maxWaitMs
                        /\ ~gRes'.allowed /\ gMem' = gMem
       /\ (GuardReturnStep /\ gRes'.failed /\ gRes'.slept)
          => /\ gRes'.path = "memory" /\ gStore' = gStore
             /\ gRes'.allowed /\ gRes'.waitedMs = now - gRes'.startTime
             /\ gRes'.waitedMs >= gRes'.reqWait
             /\ gMem'[gRes'.key] = Some(now)
       /\ \A c \in GuardCallers :
             (gPc'[c] = "sleepMemory" /\ gPc[c] # "sleepMemory")
             => LET r == luaScript(CachedAsStored(gCall'[c].key), now, gMinIntervalMs)
                IN /\ gCall'[c].failed
                   /\ r.canExecute = 0 /\ r.waitMs <= gCall'[c].maxWaitMs
                   /\ gCall'[c].wakeAt = now + r.waitMs
                   /\ gStore' = gStore /\ gMem' = gMem
       /\ \A c \in GuardCallers :
             (gPc[c] = "eval" /\ gPc'[c] # "eval" /\ gCall'[c].failed)
             => gPc'[c] = "sleepMemory"
       /\ (GuardReturnStep /\ gRes'.path = "redis" /\ ~gRes'.storeOk)
          => gRes'.allowed /\ gRes'.slept /\ gMem'[gRes'.key] = Some(now)]_vars

\* A call whose script failed found a timestamp of the running second in the
\* memory cache, slept to the next second and was admitted.
C17_Witness ==
    /\ gRes.failed /\ gRes.path = "memory" /\ gRes.slept /\ gRes.allowed
    /\ gMinIntervalMs = 0 /\ gRes.reqWait > 0
    /\ gMem[gRes.key] = gRes.ts

\* C19: on the store-backed path a call is refused exactly when the memory
\* path would refuse it.  The memory cache of a store-backed run holds what
\* the cache of the run with the store failing holds while the decisions of
\* the two agree (both paths cache each admitted timestamp), so the decision
\* of the memory path for the call is memoryWaitMs on that cache.  Stated for
\* calls whose script ran at the instant the call took its currentTimeMs.
C19_StoreDecidesAsMemory ==
    [][\A c \in GuardCallers :
          LET call == gCall[c]
              waitMs == memoryWaitMs(gMem[call.key], now, call.minIntervalMs)
          IN (gPc[c] = "eval" /\ gPc'[c] # "eval" /\ now = call.startTime)
             => ((gPc'[c] = "idle" /\ ~gRes'.allowed)
                    <=> exceedsMaxWait(waitMs, call.maxWaitMs))]_vars

(***************************************************************************)
(* Properties of the 403 circuit breaker                                   *)
(***************************************************************************)

\* A step in which the breaker operation op returns (or throws).
BreakerStep(op) == now' = now /\ bRes'.op = op

\* The hash the account id of a result resolves to, before the step.
BreakerRecord(reg, accountId) == reg[ResolvedKey(reg, accountId)]

\* C6: with the breaker enabled, record403Error appends one failure to the
\* rolling window and returns triggered=true, state=open exactly when the
\* resulting errorCount >= threshold, triggered=false, state=closed exactly
\* when errorCount < threshold; with threshold 3 the first two calls within the
\* window do not trigger and the third does.
C6_BreakerThreshold ==
    [][LET accountId == bRes'.key[2]
           cfg == breakerGetAccountConfig(accounts, bWeb, accountId)
           before == InWindow(b403[accountId], now, cfg.windowSeconds)
       IN (BreakerStep("record403Error") /\ cfg.enabled /\ ~bRes'.threw)
          => /\ b403'[accountId] = Append(before, now)
             /\ bRes'.errorCount = Len(before) + 1
             /\ bRes'.threshold = cfg.threshold
             /\ (bRes'.triggered /\ bRes'.state = "open")
                    <=> (bRes'.errorCount >= cfg.threshold)
             /\ (~bRes'.triggered /\ bRes'.state = "closed")
                    <=> (bRes'.errorCount < cfg.threshold)
             /\ cfg.threshold = 3 => (bRes'.triggered <=> Len(before) >= 2)]_vars

\* The third 403 within the window has opened the breaker of a threshold-3
\* account.
C6_Witness ==
    /\ bRes.op = "record403Error" /\ bRes.triggered /\ bRes.state = "open"
    /\ bRes.errorCount = 3 /\ bRes.threshold = 3
    /\ Len(b403[bRes.key[2]]) = 3
    /\ BreakerRecord(accounts, bRes.key[2]).error403BreakerState = Some("open")

\* C7: for an account whose persisted state is open, checkAndRecoverBreaker
\* before openUntil returns recovered=false, state=open, remainingMs =
\* openUntil - now and changes nothing; at or after openUntil it sets the
\* persisted state to half_open and returns recovered=true, state=half_open.
C7_BreakerCooldown ==
    [][LET accountId == bRes'.key[2]
           k == ResolvedKey(accounts, accountId)
           openUntil == OpenUntilOf(Some(accounts[k]))
       IN (/\ BreakerStep("checkAndRecoverBreaker")
           /\ accounts[k].error403BreakerState = Some("open"))
          => IF now < openUntil
             THEN /\ ~bRes'.recovered /\ bRes'.state = "open"
                  /\ bRes'.remainingMs = Some(openUntil - now)
                  /\ accounts' = accounts /\ b403' = b403
             ELSE /\ accounts'[k].error403BreakerState = Some("half_open")
                  /\ bRes'.recovered /\ bRes'.state = "half_open"]_vars

\* C8: across record403Error, checkAndRecoverBreaker, halfOpenCircuitBreaker,
\* getBreakerStatus and sweep ticks the persisted state never becomes closed
\* and no error window is cleared (no entry still inside the window is
\* dropped) unless closeCircuitBreaker ran; the transition to half_open leaves
\* the error history, openAt and openUntil unchanged.
C8_OnlyCloseCloses ==
    [][/\ \A k \in AccountKeys :
             /\ (/\ accounts'[k].error403BreakerState = Some("closed")
                  /\ accounts[k].error403BreakerState # Some("closed"))
                => BreakerStep("closeCircuitBreaker")
             /\ (/\ accounts'[k].error403BreakerState = Some("half_open")
                  /\ accounts[k].error403BreakerState # Some("half_open"))
                => /\ b403' = b403
                   /\ accounts'[k].error403BreakerOpenAt = accounts[k].error403BreakerOpenAt
                   /\ accounts'[k].error403BreakerOpenUntil
                         = accounts[k].error403BreakerOpenUntil
       /\ \A id \in AccountIds :
             (\/ b403[id] # <<>> /\ b403'[id] = <<>>
              \/ \E i \in DOMAIN b403[id] :
                    /\ b403[id][i] > now' - breakerGetConfig(bWeb).windowSeconds * 1000
                    /\ \A j \in DOMAIN b403'[id] : b403'[id][j] # b403[id][i])
             => BreakerStep("closeCircuitBreaker")]_vars

\* A breaker that has cooled down is half-open with its error history and its
\* two timestamps still there.
C8_Witness ==
    /\ bRes.op \in {"checkAndRecoverBreaker", "sweep"}
    /\ \E k \in AccountKeys :
          /\ accounts[k].error403BreakerState = Some("half_open")
          /\ accounts[k].error403BreakerOpenAt # None
          /\ accounts[k].error403BreakerOpenUntil # None
          /\ b403[k[2]] # <<>>

\* C9: closeCircuitBreaker on an existing account returns success and leaves
\* the persisted record with state=closed, openAt and openUntil absent and an
\* empty 403 error window; stated for the calls that return success.
C9_CloseLeavesClosed ==
    [][LET accountId == bRes'.key[2]
           d == BreakerRecord(accounts', accountId)
       IN (BreakerStep("closeCircuitBreaker") /\ bRes'.ret)
          => /\ d.error403BreakerState = Some("closed")
             /\ d.error403BreakerOpenAt = None
             /\ d.error403BreakerOpenUntil = None
             /\ b403'[accountId] = <<>>]_vars

\* C10: a breaker operation aimed at one AccountKey never changes the account
\* hash of a different AccountKey, the same accountId under another
\* accountType included.
C10_KeyedByTypeAndId ==
    [][(now' = now /\ bRes'.op \notin {"none", "sweep"})
       => \A k \in AccountKeys \ {bRes'.key} : accounts'[k] = accounts[k]]_vars

(***************************************************************************)
(* Properties of the account rate limiter                                  *)
(***************************************************************************)

\* The admissions of accountId whose time lies in the window of windowSeconds
\* that starts at time t.
AdmittedInWindow(accountId, t, windowSeconds) ==
    {i \in DOMAIN rAdm : /\ rAdm[i].accountId = accountId
                         /\ rAdm[i].ts >= t
                         /\ rAdm[i].ts < t + windowSeconds * 1000}

\* No window of windowSeconds that starts at an admission of an account holds
\* more than maxRequests admissions of that account.
WindowRespected ==
    \A i \in DOMAIN rAdm :
        LET cfg == rateGetAccountConfig(accounts, rWeb, rAdm[i].accountId)
        IN Cardinality(AdmittedInWindow(rAdm[i].accountId, rAdm[i].ts, cfg.windowSeconds))
              <= cfg.maxRequests

\* A turn of the loop whose attempt met a window that already held
\* maxRequests live entries does not return acquired=true: when the reply of
\* the store comes the caller sleeps or is refused with rate_limit_exceeded or
\* queue_timeout.
FullWindowNeverAdmits ==
    \A c \in RateCallers :
        (rPc[c] = "reply" /\ rPc'[c] # "reply" /\ rCall[c].full)
        => /\ rAdm' = rAdm
           /\ \/ rPc'[c] = "sleep"
              \/ rRes'.error \in {"rate_limit_exceeded", "queue_timeout"}

\* C1: for an account with rate limiting enabled, under any interleaving of
\* acquireRateLimit calls the calls that returned acquired=true (not skipped)
\* with admission times inside any windowSeconds-long window never exceed
\* maxRequests, and an acquire that meets a full window is queued or refused,
\* never admitted.
C1_RateWindow == []WindowRespected /\ [][FullWindowNeverAdmits]_vars

\* maxRequests calls were admitted in one window and a further call met the
\* full window and was queued or refused.
C1_Witness ==
    /\ rAdm # <<>>
    /\ LET accountId == rAdm[Len(rAdm)].accountId
           cfg == rateGetAccountConfig(accounts, rWeb, accountId)
       IN /\ cfg.enabled
          /\ Cardinality(AdmittedInWindow(accountId, rAdm[1].ts, cfg.windowSeconds))
                = cfg.maxRequests
          /\ \/ \E c \in RateCallers : rPc[c] = "sleep" /\ rCall[c].accountId = accountId
             \/ /\ rRes.accountId = accountId
                /\ rRes.error \in {"rate_limit_exceeded", "queue_timeout"}

\* The step in which caller c returns from the position pc of its call.
RateReturnsFrom(c, pc) == rPc[c] = pc /\ rPc'[c] = "idle" /\ rRes'.caller = c

\* C11: when the store raises an error during an admission attempt, the first
\* or a retry after sleeping, the call returns at once acquired=false with
\* rate_limit_backend_error; nothing is admitted, the rate window and every
\* other piece of state (there is no memory fallback) stay as they were.
C11_FailsClosed ==
    [][\A c \in RateCallers :
          (RateReturnsFrom(c, "loop") /\ rRes'.from = "catch")
          => /\ ~rRes'.acquired /\ ~rRes'.skipped
             /\ rRes'.error = "rate_limit_backend_error"
             /\ rRes'.returnedAt = now /\ now' = now
             /\ rAdm' = rAdm /\ rWin' = rWin
             /\ UNCHANGED nonRateVars]_vars

\* A retry after a sleep met a failing store and was refused with
\* rate_limit_backend_error.
C11_Witness ==
    /\ rRes.from = "catch" /\ rRes.error = "rate_limit_backend_error"
    /\ ~rRes.acquired /\ rRes.slept /\ rRes.attempts >= 2

C13_NeverOversleeps ==
    \A c \in RateCallers :
        rPc[c] = "sleep"
        => rCall[c].wakeAt <= rCall[c].startTime + rCall[c].cfg.queueTimeoutMs

\* C14: with enableQueueing=false a call that finds the window over the limit
\* returns acquired=false, rate_limit_exceeded after exactly one store
\* attempt, without having slept.
C14_NoQueueingRefusesAtOnce ==
    [][\A c \in RateCallers :
          (/\ rPc[c] = "reply" /\ rPc'[c] # "reply"
           /\ ~rCall[c].cfg.enableQueueing
           /\ ~rCall[c].result.acquired)
          => /\ RateReturnsFrom(c, "reply")
             /\ ~rRes'.acquired /\ rRes'.error = "rate_limit_exceeded"
             /\ rRes'.attempts = 1 /\ ~rRes'.slept
             /\ rAdm' = rAdm]_vars

\* A call was refused with rate_limit_exceeded while the window of its account
\* held maxRequests live entries.
C14_Witness ==
    /\ rRes.error = "rate_limit_exceeded" /\ ~rRes.enableQueueing
    /\ rRes.attempts = 1
    /\ LET cfg == rateGetAccountConfig(accounts, rWeb, rRes.accountId)
       IN Cardinality(LiveEntries(rWin[rRes.accountId], now, cfg.windowSeconds))
             >= cfg.maxRequests

\* C15: with queueing enabled, when the wait for the oldest in-window entry to
\* expire (oldestRequestTime + windowSeconds*1000 - now) is greater than the
\* remaining timeout budget, the call returns acquired=false, queue_timeout
\* in that turn, without sleeping.
C15_WaitOverBudgetTimesOut ==
    [][\A c \in RateCallers :
          LET call == rCall[c]
              wait == Val(call.result.oldestRequestTime)
                         + call.cfg.windowSeconds * 1000 - now
              remaining == call.cfg.queueTimeoutMs - (now - call.startTime)
          IN (/\ rPc[c] = "reply" /\ rPc'[c] # "reply"
              /\ call.cfg.enableQueueing
              /\ ~call.result.acquired
              /\ call.result.oldestRequestTime # None
              /\ wait > remaining)
             => /\ RateReturnsFrom(c, "reply")
                /\ ~rRes'.acquired /\ rRes'.error = "queue_timeout"
                /\ rRes'.returnedAt = now /\ now' = now
                /\ rAdm' = rAdm]_vars

\* A queueing call was refused with queue_timeout in the turn that computed
\* its wait, with budget left.
C15_Witness ==
    /\ rRes.from = "reply" /\ rRes.error = "queue_timeout" /\ rRes.enableQueueing
    /\ rRes.returnedAt - rRes.startTime < rRes.queueTimeoutMs

\* The step in which caller c enters acquireRateLimit for the account id.
AcquireEntered(c, id) ==
    /\ rNextId' = rNextId + 1
    /\ rPc[c] = "idle"
    /\ \/ rPc'[c] = "loop" /\ rCall'[c].accountId = id
       \/ /\ rPc'[c] = "idle" /\ rRes'.caller = c
          /\ rRes'.requestId = rNextId /\ rRes'.accountId = id

\* C16: when the resolved configuration of the account has enabled=false,
\* acquireRateLimit returns acquired=true, skipped=true at once, makes no
\* admission call to the store and leaves the rate windows unchanged.
C16_DisabledSkips ==
    [][\A c \in RateCallers, id \in AccountIds :
          (/\ AcquireEntered(c, id)
           /\ ~rateGetAccountConfig(accounts, rWeb, id).enabled)
          => /\ rPc'[c] = "idle"
             /\ rRes'.acquired /\ rRes'.skipped /\ rRes'.from = "disabled"
             /\ rRes'.attempts = 0 /\ rRes'.returnedAt = now /\ now' = now
             /\ rWin' = rWin /\ rAdm' = rAdm]_vars

\* A call on a disabled account was skipped while the window of an enabled
\* account held entries.
C16_Witness ==
    /\ rRes.from = "disabled" /\ rRes.acquired /\ rRes.skipped
    /\ ~rateGetAccountConfig(accounts, rWeb, rRes.accountId).enabled
    /\ \E id \in AccountIds : rWin[id] # {}

\* C18: record403Error never ends with the store's error: whatever the store
\* does while the failure is recorded and counted, the call returns an object
\* {triggered, errorCount, threshold, state}.
C18_Record403ErrorNeverThrows ==
    [][BreakerStep("record403Error") => ~bRes'.threw]_vars

\* C20: every account record whose breaker state is open holds an openAt and
\* an openUntil, and its openUntil is later than its openAt; the records a
\* reader meets between the writes of an update are records of the registry.
C20_OpenHasBothTimes ==
    \A k \in AccountKeys :
        accounts[k].error403BreakerState = Some("open")
        => /\ accounts[k].error403BreakerOpenAt # None
           /\ accounts[k].error403BreakerOpenUntil # None
           /\ ParseInt(Val(accounts[k].error403BreakerOpenUntil))
                 > ParseInt(Val(accounts[k].error403BreakerOpenAt))

\* The elements of a sequence.
Range(s) == {s[i] : i \in DOMAIN s}

\* The record checkAndRecoverBreaker reads for id is open with its cooldown over.
DueForRecovery(reg, id, t) ==
    LET d == getAccountData(reg, id)
    IN /\ d # None /\ StateOr(d, "") = "open"
       /\ t >= OpenUntilOf(d)

\* C21: in a sweep in which the scan of one account type throws, or the store
\* fails under the check of one account, every account of the other account
\* types is still passed to checkAndRecoverBreaker, and every account passed
\* in a check the store did not fail under is recovered if it was due.
C21_SweepGoesOn ==
    [][(BreakerStep("sweep") /\ bRes'.state # "disabled")
       => /\ \A k \in AccountKeys :
                k[1] # bRes'.failedType => k \in Range(bRes'.checked)
          /\ \A i \in DOMAIN bRes'.checked :
                LET id == bRes'.checked[i][2]
                IN (i # bRes'.failedCheck /\ DueForRecovery(accounts, id, now))
                   => accounts'[ResolvedKey(accounts, id)].error403BreakerState
                         = Some("half_open")]_vars

\* A sweep whose scan of claude_account threw has passed the gemini accounts
\* on and recovered account B, which was due.
C21_Witness ==
    /\ bRes.op = "sweep" /\ bRes.failedType = "claude_account"
    /\ bRes.errorCount >= 1
    /\ <<"gemini_account", "B">> \in Range(bRes.checked)
    /\ accounts[<<"gemini_account", "B">>].error403BreakerState = Some("half_open")
    /\ now >= ParseInt(Val(accounts[<<"gemini_account", "B">>].error403BreakerOpenUntil))

\* The record k is open and its cooldown is over.
OpenAndDue(k) ==
    /\ accounts[k].error403BreakerState = Some("open")
    /\ accounts[k].error403BreakerOpenUntil # None
    /\ now >= ParseInt(Val(accounts[k].error403BreakerOpenUntil))

C23_ScanTerminates ==
    /\ [](/\ scan.pc = "loop" => scan.iterations < MAX_ITERATIONS
          /\ scan.returned
             => /\ scan.pc = "idle" /\ scan.calls <= MAX_ITERATIONS
                /\ scan.failed => scan.ret = <<>>
                /\ ~scan.failed
                   => (scan.lastCursor = "0" \/ scan.calls = MAX_ITERATIONS))
    /\ [][\A ok \in BOOLEAN, newCursor \in ScanCursors,
             keys \in ScanPages(scan.accountType) :
             (scanCall(ok, newCursor, keys) /\ ok)
             => LET ids == scan.accountIds \o ScanIdsOf(scan.accountType, keys)
                IN IF scan'.returned THEN scan'.ret = ids
                   ELSE scan'.accountIds = ids]_vars

\* A scan gave up at the cap with the cursor still not '0' and returned the
\* ids it had collected.
C23_Witness ==
    /\ scan.returned /\ ~scan.failed
    /\ scan.calls = MAX_ITERATIONS /\ scan.lastCursor # "0"
    /\ Len(scan.ret) = MaxScanIds

\* C24: when the configuration resolved for the account has enabled=false,
\* record403Error returns triggered=false, errorCount 0 and state=disabled,
\* appends nothing to the error window and leaves every account record, and
\* with it the breaker state, openAt and openUntil, as it was.
C24_DisabledRecordsNothing ==
    [][(/\ BreakerStep("record403Error")
        /\ ~breakerGetAccountConfig(accounts, bWeb, bRes'.key[2]).enabled)
       => /\ ~bRes'.triggered /\ ~bRes'.threw
          /\ bRes'.state = "disabled" /\ bRes'.errorCount = 0
          /\ b403' = b403 /\ accounts' = accounts]_vars

\* record403Error answered disabled for an account switched off by its own
\* record while the breaker is switched on globally and has recorded the
\* errors of another account.
C24_Witness ==
    /\ bRes.op = "record403Error" /\ bRes.state = "disabled"
    /\ bRes.key = <<"gemini_account", "B">>
    /\ breakerGetConfig(bWeb).enabled
    /\ b403["A"] # <<>> /\ b403["B"] = <<>>

\* C25: whatever record403Error and closeCircuitBreaker calls run beside it,
\* checkAndRecoverBreaker writes half_open only to a record that is open with
\* its cooldown over at the moment of the write.
C25_RecoversOnlyOpenAndDue ==
    [][\A k \in AccountKeys :
          (/\ bPend # None /\ bPend' = None
           /\ accounts'[k].error403BreakerState = Some("half_open")
           /\ k = ResolvedKey(accounts, Val(bPend).key[2]))
          => OpenAndDue(k)]_vars

\* The fields of an account hash the breaker writes.
BreakerStateFields ==
    {"error403BreakerState", "error403BreakerOpenAt", "error403BreakerOpenUntil"}

\* C26: opening, half-opening and closing the breaker change no field of any
\* account record other than error403BreakerState, error403BreakerOpenAt and
\* error403BreakerOpenUntil, also when another mechanism has written the
\* record between the read and the write of the operation.
C26_OnlyBreakerFieldsChange ==
    [][BreakerFieldsOps
       => \A k \in AccountKeys :
             \A f \in (DOMAIN accounts[k]) \ BreakerStateFields :
                accounts'[k][f] = accounts[k][f]]_vars

\* A checkAndRecoverBreaker has half-opened account B; the hash was stamped
\* by the other mechanism between its read and its write and still holds the
\* stamp and the settings of the account.
C26_Witness ==
    LET d == accounts[<<"gemini_account", "B">>]
    IN /\ bRes.op = "checkAndRecoverBreaker" /\ bRes.recovered
       /\ d.error403BreakerState = Some("half_open")
       /\ d.lastUsedAt # None
       /\ bRes.readAt < ParseInt(Val(d.lastUsedAt))
       /\ ParseInt(Val(d.lastUsedAt)) < bRes.writtenAt
       /\ d.error403Threshold = Some(NumToString(2))

\* The value of a field of the account hash read as a flag or as a number,
\* or the global value when the hash has no such field or there is no account.
FlagOr(accountData, field, global) ==
    IF accountData # None /\ Val(accountData)[field] # None
    THEN Val(Val(accountData)[field]) = "true" ELSE global
NumberOr(accountData, field, global) ==
    IF accountData # None /\ Val(accountData)[field] # None
    THEN ParseInt(Val(Val(accountData)[field])) ELSE global

\* C27: for every account the rate-limit configuration takes queueTimeoutMs
\* and enableQueueing, and the breaker configuration windowSeconds and
\* autoRecovery, from the global configuration whatever the account record
\* holds; enabled, windowSeconds and maxRequests of the rate limiter and
\* enabled, threshold and breakerDurationMinutes of the breaker follow the
\* account record where it has the field and the global configuration where
\* it has not.  The calls of the services work with these values.
C27_GlobalOnlyFields ==
    /\ [](\A id \in AccountIds :
            LET d == getAccountData(accounts, id)
                rg == rateGetConfig(rWeb)
                rc == rateGetAccountConfig(accounts, rWeb, id)
                bg == breakerGetConfig(bWeb)
                bc == breakerGetAccountConfig(accounts, bWeb, id)
            IN /\ rc.queueTimeoutMs = rg.queueTimeoutMs
               /\ rc.enableQueueing = rg.enableQueueing
               /\ bc.windowSeconds = bg.windowSeconds
               /\ bc.autoRecovery = bg.autoRecovery
               /\ rc.enabled = FlagOr(d, "rateLimitEnabled", rg.enabled)
               /\ rc.windowSeconds = NumberOr(d, "rateLimitWindowSeconds", rg.windowSeconds)
               /\ rc.maxRequests = NumberOr(d, "rateLimitMaxRequests", rg.maxRequests)
               /\ bc.enabled = FlagOr(d, "error403BreakerEnabled", bg.enabled)
               /\ bc.threshold = NumberOr(d, "error403Threshold", bg.threshold)
               /\ bc.breakerDurationMinutes
                     = NumberOr(d, "error403BreakerDurationMinutes", bg.breakerDurationMinutes))
    /\ [](rRes.from \notin {"none", "disabled"}
            => /\ rRes.queueTimeoutMs = rateGetConfig(rWeb).queueTimeoutMs
               /\ rRes.enableQueueing = rateGetConfig(rWeb).enableQueueing)
    /\ [](bRes.op = "getBreakerStatus"
            => LET d == getAccountData(accounts, bRes.key[2])
                   bg == breakerGetConfig(bWeb)
               IN /\ bRes.enabled = FlagOr(d, "error403BreakerEnabled", bg.enabled)
                  /\ bRes.threshold = NumberOr(d, "error403Threshold", bg.threshold))

\* An acquireRateLimit on account B, whose hash names a queue timeout of its
\* own, has returned having worked with the queue timeout of the web
\* configuration; the breaker of B is switched off by the hash alone.
C27_Witness ==
    /\ accounts = RegistryOverridden
    /\ rRes.accountId = "B" /\ rRes.from \notin {"none", "disabled"}
    /\ rRes.queueTimeoutMs = 1500
    /\ ParseInt(Val(accounts[<<"gemini_account", "B">>].rateLimitQueueTimeoutMs)) = 100
    /\ bRes.op = "getBreakerStatus" /\ bRes.key = <<"gemini_account", "B">>
    /\ ~bRes.enabled /\ breakerGetConfig(bWeb).enabled

\* C28: releaseRateLimit returns false without calling the store when the
\* account id or the request id is missing; otherwise it returns true exactly
\* when the window of the account held an entry of the request, which it
\* removes, so that the count is one lower and a second release of the same
\* request finds nothing and returns false; nothing else is changed.
C28_ReleaseRemovesOne ==
    [][\A accountId \in AccountIds \cup {""}, requestId \in 0..MaxAcquires :
          releaseRateLimit(accountId, requestId, TRUE)
          => IF accountId = "" \/ requestId = 0
             THEN ~rRes'.released /\ rRes'.attempts = 0 /\ rWin' = rWin
             ELSE LET held == {e \in rWin[accountId] : e.id = requestId}
                  IN /\ rRes'.released <=> held # {}
                     /\ rWin'[accountId] = rWin[accountId] \ held
                     /\ Cardinality(held) <= 1
                     /\ rRes'.released
                        => Cardinality(rWin'[accountId])
                              = Cardinality(rWin[accountId]) - 1
                     /\ \A id \in AccountIds \ {accountId} : rWin'[id] = rWin[id]]_vars

\* Two requests of account A were admitted at the same instant although its
\* window takes one request: the slot of the first was released in between.
C28_Witness ==
    /\ rateGetAccountConfig(accounts, rWeb, "A").enabled
    /\ rateGetAccountConfig(accounts, rWeb, "A").maxRequests = 1
    /\ \E i, j \in DOMAIN rAdm :
          /\ i < j /\ rAdm[i].accountId = "A" /\ rAdm[j].accountId = "A"
          /\ rAdm[i].ts = rAdm[j].ts
    /\ Cardinality(rWin["A"]) = 1

\* The memory path is taken only by a call that found no client or whose
\* script failed.
MemoryOnlyAfterFailure ==
    /\ gRes.path = "memory" => gRes.failed
    /\ \A c \in GuardCallers : gPc[c] = "sleepMemory" => gCall[c].failed

\* What a call whose script ran does is what the script computes from the
\* stored timestamp; the call that slept on the store path is admitted.
StoreDecidesAlone ==
    \A c \in GuardCallers :
       /\ (gPc[c] = "idle" /\ gPc'[c] = "eval") => gMem' = gMem
       /\ (gPc[c] = "eval" /\ gPc'[c] # "eval")
          => LET call == gCall[c]
                 r == luaScript(StoreGet(gStore, call.key, now), call.startTime,
                                call.minIntervalMs)
             IN \/ gPc'[c] = "sleepMemory" /\ gCall'[c].failed
                \/ gPc'[c] = "idle" /\ gRes'.path = "memory" /\ gRes'.failed
                \/ /\ r.canExecute = 1 /\ gPc'[c] = "idle"
                   /\ gRes'.path = "redis" /\ gRes'.allowed /\ gRes'.waitedMs = 0
                \/ /\ r.canExecute = 0 /\ r.waitMs > call.maxWaitMs /\ gPc'[c] = "idle"
                   /\ gRes'.path = "redis" /\ ~gRes'.allowed
                \/ /\ r.canExecute = 0 /\ r.waitMs <= call.maxWaitMs
                   /\ gPc'[c] = "sleepRedis" /\ gCall'[c].waitMs = r.waitMs
       /\ (gPc[c] = "sleepRedis" /\ gPc'[c] # "sleepRedis")
          => gRes'.path = "redis" /\ gRes'.allowed

\* C29: every checkAndWait call tries the store first; the memory cache is
\* read only in a call that found no client or whose script failed, and what
\* a call does on the store path is determined by the store's content alone.
C29_StoreFirst == []MemoryOnlyAfterFailure /\ [][StoreDecidesAlone]_vars

\* The store path admitted a call at once although the previous admission,
\* still in the memory cache, was less than minIntervalMs before it.
C29_Witness ==
    /\ gRes.path = "redis" /\ gRes.allowed /\ ~gRes.slept /\ ~gRes.failed
    /\ \E k \in GuardKeys :
          /\ gRes.key = k /\ gAdm[k].last.ts = gRes.ts /\ gAdm[k].prev.ts # None
          /\ Val(gRes.ts) - Val(gAdm[k].prev.ts) <= maxAge
          /\ gMem[k] = gRes.ts
          /\ memoryWaitMs(gAdm[k].prev.ts, Val(gRes.ts), gMinIntervalMs) > 0

\* A call sleeps at most once and for no more than maxWaitMs: it goes to
\* sleep only before having slept, for the wait it computed, and the step that
\* ends the sleep returns; a call that did not sleep reports waitedMs = 0, a
\* refused call did not sleep, and a call that slept is admitted and reports
\* the time since its start, which is at least the computed wait.
SleepsOnceWithinMaxWait ==
    \A c \in GuardCallers :
       /\ (gPc[c] \notin {"sleepRedis", "sleepMemory"}
             /\ gPc'[c] \in {"sleepRedis", "sleepMemory"})
          => /\ gPc[c] \in {"idle", "eval"}
             /\ gCall'[c].waitMs > 0
             /\ gCall'[c].waitMs <= gCall'[c].maxWaitMs
             /\ gCall'[c].wakeAt = now + gCall'[c].waitMs
       /\ (gPc[c] \in {"sleepRedis", "sleepMemory"} /\ gPc'[c] # gPc[c])
          => /\ gPc'[c] = "idle" /\ now >= gCall[c].wakeAt
             /\ gRes'.allowed /\ gRes'.slept
             /\ gRes'.reqWait = gCall[c].waitMs
             /\ gRes'.waitedMs = now - gCall[c].startTime
             /\ gRes'.waitedMs >= gRes'.reqWait
       /\ (gPc[c] \in {"idle", "eval"} /\ gPc'[c] = "idle" /\ GuardReturnStep
             /\ \A d \in GuardCallers \ {c} : gPc'[d] = gPc[d])
          => ~gRes'.slept /\ gRes'.waitedMs = 0
       /\ (GuardReturnStep /\ ~gRes'.allowed) => ~gRes'.slept /\ gRes'.waitedMs = 0
       /\ gPc[c] = "eval" => gPc'[c] \in {"eval", "idle", "sleepRedis", "sleepMemory"}

\* C30: every checkAndWait call returns, after at most one sleep, which is
\* requested for no more than maxWaitMs; a refused call and a call admitted
\* at once report waitedMs = 0, and a call admitted after its sleep reports a
\* waitedMs of at least the computed wait.
C30_LatencyBound ==
    /\ [][SleepsOnceWithinMaxWait]_vars
    /\ \A c \in {1} : (gPc[c] # "idle") ~> (gPc[c] = "idle")

\* A call was admitted after a sleep of the whole maxWaitMs and reports more
\* than the computed wait: the clock had moved on around its sleep.
C30_Witness ==
    /\ gRes.allowed /\ gRes.slept
    /\ gRes.reqWait = gRes.maxWaitMs
    /\ gRes.waitedMs > gRes.reqWait

\* C31: record403Error on an account whose breaker is open, with the error
\* count still at the threshold, leaves the state open and resets openAt to
\* now and openUntil to now + breakerDurationMinutes * 60000, so that
\* openUntil does not decrease.
C31_ReopenRefreshes ==
    [][LET accountId == bRes'.key[2]
           k == ResolvedKey(accounts, accountId)
           cfg == breakerGetAccountConfig(accounts, bWeb, accountId)
       IN (/\ BreakerStep("record403Error") /\ bRes'.triggered
           /\ accounts[k].error403BreakerState = Some("open"))
          => /\ accounts'[k].error403BreakerState = Some("open")
             /\ accounts'[k].error403BreakerOpenAt = Some(NumToString(now))
             /\ accounts'[k].error403BreakerOpenUntil
                   = Some(NumToString(now + cfg.breakerDurationMinutes * 60 * 1000))
             /\ OpenUntilOf(Some(accounts'[k])) >= OpenUntilOf(Some(accounts[k]))]_vars

\* C32: a half_open record becomes open only in a record403Error call whose
\* error count reaches the threshold, and such a call on a half_open record
\* (the failures recorded before the half-open transition still count) leaves
\* it open with openAt = now and openUntil = now + breakerDurationMinutes * 60000.
C32_HalfOpenReopensByErrorOnly ==
    [][/\ \A k \in AccountKeys :
             (/\ accounts[k].error403BreakerState = Some("half_open")
              /\ accounts'[k].error403BreakerState = Some("open"))
             => /\ BreakerStep("record403Error") /\ bRes'.triggered
                /\ bRes'.errorCount >= bRes'.threshold
       /\ LET accountId == bRes'.key[2]
              k == ResolvedKey(accounts, accountId)
              cfg == breakerGetAccountConfig(accounts, bWeb, accountId)
          IN (/\ BreakerStep("record403Error") /\ ~bRes'.threw /\ cfg.enabled
              /\ accounts[k].error403BreakerState = Some("half_open"))
             => /\ b403'[accountId]
                      = Append(InWindow(b403[accountId], now, cfg.windowSeconds), now)
                /\ bRes'.errorCount >= cfg.threshold
                   => /\ accounts'[k].error403BreakerState = Some("open")
                      /\ accounts'[k].error403BreakerOpenAt = Some(NumToString(now))
                      /\ accounts'[k].error403BreakerOpenUntil
                            = Some(NumToString(now + cfg.breakerDurationMinutes * 60 * 1000))
                /\ bRes'.errorCount < cfg.threshold => accounts' = accounts]_vars

\* C33: no two calls of the same-second guard that the store path admitted
\* were admitted in the same whole second.
C33_LegacyOnePerSecond ==
    \A a, b \in lAdm :
       (a.byStore /\ b.byStore /\ a.second = b.second) => a.caller = b.caller

\* C34: the base interval of the poll after retryCount retries is
\* min(50 * 1.5^retryCount, 500) ms and does not decrease with retryCount; the
\* interval slept is the base times a factor between 0.85 and 1.15, capped at
\* 500 ms, so it lies between 42.5 ms and 500 ms.
C34_BackoffBounds ==
    [][\A c \in RateCallers :
          (/\ rPc[c] = "reply" /\ rPc'[c] = "sleep"
           /\ rCall'[c].retryCount = rCall[c].retryCount + 1)
          => LET n == rCall[c].retryCount
                 base == basePollInterval(n)
                 slept == rCall'[c].polled
             IN /\ IF 50 * PollScale * 3^n >= 500 * PollScale * 2^n
                   THEN base = 500 * PollScale
                   ELSE base * 2^n = 50 * PollScale * 3^n
                /\ base <= basePollInterval(n + 1)
                /\ \E percent \in 85..115 :
                      slept * 100 = Min(base * percent, 500 * PollScale * 100)
                /\ slept * 10 >= 425 * PollScale
                /\ slept <= 500 * PollScale
                /\ rCall'[c].wakeAt = now + slept \div PollScale]_vars

\* A caller sleeps its seventh poll interval, which the cap has cut from
\* 654.96 ms to 500 ms.
C34_Witness ==
    \E c \in RateCallers :
       /\ rPc[c] = "sleep" /\ rCall[c].retryCount = 7
       /\ rCall[c].polled = 500 * PollScale
       /\ jitter(6, 115) > 500 * PollScale

\* C35: with the whitelist enabled the middleware either calls next() once or
\* answers 403 once; it calls next() only when the resolved client address
\* equals a whitelist entry as it is or after a "::ffff:" prefix is stripped;
\* with an empty whitelist it answers 403; with the whitelist disabled it
\* calls next() without resolving the address.
C35_WhitelistGate ==
    wRes.handled
    => /\ wRes.nextCalls + wRes.status403 = 1
       /\ IF wRes.cfg.enabled
          THEN /\ wRes.resolved
               /\ wRes.nextCalls = 1
                  => \E i \in DOMAIN wRes.cfg.allowedIps :
                        \/ wRes.clientIp = wRes.cfg.allowedIps[i]
                        \/ /\ wRes.clientIp # <<>> /\ Head(wRes.clientIp) = Mapped
                           /\ Tail(wRes.clientIp) = wRes.cfg.allowedIps[i]
               /\ Len(wRes.cfg.allowedIps) = 0 => wRes.status403 = 1
          ELSE wRes.nextCalls = 1 /\ ~wRes.resolved

\* C36: whenever record403Error returns triggered = true and state = open,
\* the account's record holds state open with openAt and openUntil set after
\* the call, also when a field update fails.
C36_TriggerIsPersistedOpen ==
    [][LET accountId == bRes'.key[2]
           k == ResolvedKey(accounts', accountId)
       IN (/\ BreakerStep("record403Error")
           /\ bRes'.triggered /\ bRes'.state = "open")
          => /\ Exists(accounts', k)
             /\ accounts'[k].error403BreakerState = Some("open")
             /\ accounts'[k].error403BreakerOpenAt # None
             /\ accounts'[k].error403BreakerOpenUntil # None]_vars

\* C37: whenever record403Error returns state = closed, the account's
\* persisted breaker state after the call is closed (an absent field reads as
\* closed), also when the breaker was open or half_open before the call.
C37_ReturnedClosedIsPersisted ==
    [][LET accountId == bRes'.key[2]
           k == ResolvedKey(accounts', accountId)
       IN (/\ BreakerStep("record403Error")
           /\ ~bRes'.threw /\ bRes'.state = "closed")
          => StateOr(Some(accounts'[k]), "closed") = "closed"]_vars

\* C40: a getBreakerStatus call that did not fail changes no persisted state,
\* reports a remainingMs other than 0 only with state open, and reports as
\* errorCount the number of failures inside the configured windowSeconds,
\* the window record403Error counts in.
C40_StatusIsConsistentView ==
    [][LET accountId == bRes'.key[2]
           cfg == breakerGetAccountConfig(accounts, bWeb, accountId)
       IN (BreakerStep("getBreakerStatus") /\ bRes'.state # "error")
          => /\ accounts' = accounts /\ b403' = b403
             /\ (bRes'.remainingMs # None /\ Val(bRes'.remainingMs) # 0)
                => bRes'.state = "open"
             /\ bRes'.errorCount
                   = Len(InWindow(b403[accountId], now, cfg.windowSeconds))]_vars

\* C38: with the limiter enabled and fewer than maxRequests entries in the
\* account's window, the first turn of acquireRateLimit asks the store,
\* whatever queueTimeoutMs is, and the call returns acquired = true and not
\* queue_timeout (a store that throws aside).
C38_TriesBeforeTimingOut ==
    [][\A c \in RateCallers :
          LET call == rCall[c]
              free == Cardinality(LiveEntries(rWin[call.accountId], now,
                                              call.cfg.windowSeconds))
                         < call.cfg.maxRequests
          IN /\ (rPc[c] = "loop" /\ call.attempts = 0 /\ free /\ rPc'[c] # "loop")
                => \/ rPc'[c] = "reply" /\ rCall'[c].attempts = 1
                      /\ rCall'[c].result.acquired
                   \/ rPc'[c] = "idle" /\ rRes'.from = "catch"
             /\ (rPc[c] = "reply" /\ call.attempts = 1 /\ ~call.full /\ rPc'[c] # "reply")
                => /\ rPc'[c] = "idle" /\ rRes'.caller = c
                   /\ rRes'.acquired /\ rRes'.error # "queue_timeout"]_vars

\* C39: a caller that slept until the oldest entry of the window expires
\* asks the store again once awake: it does not leave the head of the loop
\* with queue_timeout, and so a lone caller that slept (its wait was within
\* the remaining budget, the budget itself included) is admitted by the
\* attempt after its sleep.
C39_RetriesAfterSleep ==
    [][\A c \in RateCallers :
          LET call == rCall[c]
          IN /\ (/\ rPc[c] = "loop" /\ call.slept /\ call.polled = 0
                 /\ rPc'[c] # "loop")
                => \/ rPc'[c] = "reply" /\ rCall'[c].attempts = call.attempts + 1
                      /\ rCall'[c].result.acquired
                   \/ rPc'[c] = "idle" /\ rRes'.from = "catch"]_vars

====
